---------------------------- MODULE Spec2Model ----------------------------
(***************************************************************************)
(* Model of maptile-proxy: the bounded LRU memory cache (LRUCache), the    *)
(* tile-acquisition orchestrator (getTile) with its durable S3 tier and    *)
(* origin render engine, the cache reset lifecycle, the configuration and  *)
(* the reads of the durable store (storage.ts), and the coordinate         *)
(* transforms between WGS84, GCJ-02 and Web Mercator (gcj02.ts).           *)
(***************************************************************************)
EXTENDS Integers, Sequences, FiniteSets, TLC

VARIABLES
    env,          \* process.env as createDefaultStorage reads it
    store,        \* storage.ts: the running TileStorage call and what it was answered
    s3Enabled,    \* index.ts:87   s3Storage instanceof TileStorage
    renderLayer,  \* index.ts:162  identity of the current render-layer instance
    tileCache,    \* index.ts:163  the LRUCache object: [cache, maxSize]
    s3Objects,    \* the durable store's objects: set of [key, body]
    s3Saves,      \* saveTile calls in flight: set of [call, key, body]
    pc,           \* per getTile call: "idle", suspended in "s3" or "wait", or "done"
    args,         \* per getTile call: <<x, y, z>>
    startLayer,   \* per getTile call: the render layer current when it started
    outcome,      \* per getTile call: "ok" or the error it threw
    result,       \* per getTile call: the Buffer it returned
    tiles,        \* per getTile call: its origin tile, [state, layer, zxy]
    listeners,    \* the calls whose handler is subscribed to CHANGE on their tile
    timers,       \* the calls whose setTimeout is armed
    log,          \* per getTile call: the operations it performed, in order
    handlerSaw,   \* per getTile call: the states its handler observed, in order
    s3Res,        \* per getTile call: how its durable lookup ended
    lruTrace,     \* the operations applied to an LRUCache under test, in order
    version,      \* gcj02.ts: which of the file's two definitions is in use
    input0,       \* the caller's input array as it was handed over
    call,         \* the transform call: [fn, opt_output, opt_dimension]
    mem,          \* the arrays by reference, and the accesses made to them
    stages,       \* forEachPoint transforms the call has still to run
    frame,        \* the running forEachPoint call: arrays, len, dimension, offset
    prev,         \* the array the last finished forEachPoint call returned
    returned      \* the array the call returned, 0 while it runs

orchVars == <<env, store, s3Enabled, renderLayer, s3Objects, s3Saves, pc, args,
              startLayer, outcome, result, tiles, listeners, timers, log,
              handlerSaw, s3Res>>

vars == <<env, store, s3Enabled, renderLayer, tileCache, s3Objects, s3Saves, pc, args,
          startLayer, outcome, result, tiles, listeners, timers, log,
          handlerSaw, s3Res, lruTrace,
          version, input0, call, mem, stages, frame, prev, returned>>

geoVars == <<version, input0, call, mem, stages, frame, prev, returned>>

---------------------------------------------------------------------------
(* Bounds of the model *)

MaxCalls == 2      \* getTile calls in one behaviour
MaxResets == 1     \* resets (timer or manual) in one behaviour
CacheMaxSize == 1  \* CACHE_MAX_SIZE the orchestrator's cache is built with
MaxLruSize == 2    \* largest maxSize of an LRUCache under test
MaxOps == 4        \* operations applied to an LRUCache under test
MaxCoord == 11     \* largest |x|, |y|, |z| of the tiles whose keys are compared
MaxChunks == 2     \* chunks a response body is streamed in
MaxSpin == 2       \* iterations followed in a forEachPoint loop that does not advance
Epsilon == 100     \* tolerance of a coordinate round trip, in 10^-6 degree

Calls == 1..MaxCalls

---------------------------------------------------------------------------
(* JavaScript values passed to getTile, and their string conversion *)

JSNum(n) == [type |-> "number", kind |-> "finite", int |-> n]
JSNaN == [type |-> "number", kind |-> "NaN", int |-> 0]
JSInfinity == [type |-> "number", kind |-> "Infinity", int |-> 0]
JSNegInfinity == [type |-> "number", kind |-> "-Infinity", int |-> 0]
JSUndefined == [type |-> "undefined", kind |-> "undefined", int |-> 0]

typeof(v) == v.type

isFinite(v) == v.type = "number" /\ v.kind = "finite"

Digit == <<"0", "1", "2", "3", "4", "5", "6", "7", "8", "9">>

RECURSIVE NatToString(_)
NatToString(n) ==
    IF n < 10 THEN Digit[n + 1]
    ELSE NatToString(n \div 10) \o Digit[(n % 10) + 1]

\* Number::toString on an integer: an optional sign and the decimal digits
IntToString(n) == IF n < 0 THEN "-" \o NatToString(-n) ELSE NatToString(n)

\* `${v}` in a template literal
TemplateString(v) == IF v.kind = "finite" THEN IntToString(v.int) ELSE v.kind

---------------------------------------------------------------------------
(* Buffers.  A Buffer is identified by where its bytes came from. *)

NullBuffer == [from |-> "null", zxy |-> <<>>, layer |-> 0]
TestBuffer(n) == [from |-> "test", zxy |-> <<>>, layer |-> n]
OriginBuffer(zxy, layer) == [from |-> "origin", zxy |-> zxy, layer |-> layer]
StoredBuffer(zxy) == [from |-> "s3", zxy |-> zxy, layer |-> 0]

---------------------------------------------------------------------------
(* JavaScript Map<string, Buffer>: entries in insertion order *)

MapKeys(m) == {m[i].key : i \in 1..Len(m)}

MapHas(m, key) == key \in MapKeys(m)

MapGet(m, key) ==
    IF MapHas(m, key)
    THEN (CHOOSE e \in {m[i] : i \in 1..Len(m)} : e.key = key).value
    ELSE NullBuffer

MapDelete(m, key) == SelectSeq(m, LAMBDA e : e.key # key)

\* Map.prototype.set keeps the position of an existing key
MapSet(m, key, value) ==
    IF MapHas(m, key)
    THEN [i \in 1..Len(m) |->
            IF m[i].key = key THEN [key |-> key, value |-> value] ELSE m[i]]
    ELSE Append(m, [key |-> key, value |-> value])

\* this.cache.keys().next().value
MapFirstKey(m) == m[1].key

---------------------------------------------------------------------------
(* class LRUCache.  An object is [cache |-> Map, maxSize |-> number]. *)

NewLRUCache(maxSize) == [cache |-> <<>>, maxSize |-> maxSize]

\* the value get(key) returns
LRUCache_getValue(obj, key) == MapGet(obj.cache, key)

LRUCache_get_no_promote(obj, key) == obj

\* the object after get(key): a hit is deleted and inserted again
LRUCache_get(obj, key) ==
    IF MapHas(obj.cache, key)
    THEN [obj EXCEPT !.cache =
            MapSet(MapDelete(obj.cache, key), key, MapGet(obj.cache, key))]
    ELSE obj

LRUCache_set_no_evict(obj, key, value) ==
    [obj EXCEPT !.cache = MapSet(MapDelete(obj.cache, key), key, value)]

LRUCache_set_full_evicts(obj, key, value) ==
    LET m == obj.cache
        pruned == IF Len(m) >= obj.maxSize /\ Len(m) > 0
                  THEN MapDelete(m, MapFirstKey(m))
                  ELSE m
    IN [obj EXCEPT !.cache = MapSet(MapDelete(pruned, key), key, value)]

LRUCache_set(obj, key, value) ==
    LET m == obj.cache
        pruned == IF MapHas(m, key) THEN MapDelete(m, key)
                  ELSE IF Len(m) >= obj.maxSize /\ Len(m) > 0
                       THEN MapDelete(m, MapFirstKey(m))
                       ELSE m
    IN [obj EXCEPT !.cache = MapSet(pruned, key, value)]

LRUCache_has(obj, key) == MapHas(obj.cache, key)

LRUCache_delete(obj, key) == [obj EXCEPT !.cache = MapDelete(obj.cache, key)]

LRUCache_clear(obj) == [obj EXCEPT !.cache = <<>>]

LRUCache_size(obj) == Len(obj.cache)

---------------------------------------------------------------------------
(* The LRUCache class on its own: any sequence of its operations *)

LruKeys == {"a", "b", "c"}

LruStep(op, key, hit, obj) ==
    /\ Len(lruTrace) < MaxOps
    /\ lruTrace' = Append(lruTrace, [op |-> op, key |-> key, hit |-> hit])
    /\ tileCache' = obj
    /\ UNCHANGED <<geoVars, orchVars>>

LruGet(key) ==
    LruStep("get", key, LRUCache_getValue(tileCache, key) # NullBuffer,
            LRUCache_get(tileCache, key))

\* every set stores a Buffer of its own
LruSet(key) ==
    LruStep("set", key, LRUCache_has(tileCache, key),
            LRUCache_set(tileCache, key, TestBuffer(Len(lruTrace) + 1)))

LruHas(key) ==
    LruStep("has", key, LRUCache_has(tileCache, key), tileCache)

LruDelete(key) ==
    LruStep("delete", key, LRUCache_has(tileCache, key),
            LRUCache_delete(tileCache, key))

LruClear ==
    LruStep("clear", "", FALSE, LRUCache_clear(tileCache))

---------------------------------------------------------------------------
(* Storage configuration (storage.ts createDefaultStorage, index.ts:86-87) *)

\* the value of an environment variable that is set
JSString(s) == [type |-> "string", kind |-> s, int |-> 0]

\* ToBoolean of an environment variable: unset and "" are falsy
Truthy(v) == v.type = "string" /\ v.kind # ""

\* a || b and a && b, which return one of their operands
Or(a, b) == IF Truthy(a) THEN a ELSE b

And(a, b) == IF Truthy(a) THEN b ELSE a

EnvNames == {"S3_ENDPOINT", "AWS_ACCESS_KEY_ID", "AWS_SECRET_ACCESS_KEY"}

\* each variable unset, empty or set
Envs == [EnvNames -> {JSUndefined, JSString(""), JSString("set")}]

hasS3Config_either_credential(e) ==
    Or(e["S3_ENDPOINT"],
       Or(e["AWS_ACCESS_KEY_ID"], e["AWS_SECRET_ACCESS_KEY"]))

\* process.env.S3_ENDPOINT
\*   || (process.env.AWS_ACCESS_KEY_ID && process.env.AWS_SECRET_ACCESS_KEY)
hasS3Config(e) ==
    Or(e["S3_ENDPOINT"],
       And(e["AWS_ACCESS_KEY_ID"], e["AWS_SECRET_ACCESS_KEY"]))

\* the class of the object createDefaultStorage returns, "null" for null
createDefaultStorage(e) ==
    IF ~Truthy(hasS3Config(e)) THEN "null" ELSE "TileStorage"

\* createDefaultStorage() || new NullStorage()
s3Storage(e) ==
    IF createDefaultStorage(e) = "null" THEN "NullStorage"
    ELSE createDefaultStorage(e)

\* the environment of a deployment without a store, and of one with MinIO
NoStoreEnv == [n \in EnvNames |-> JSUndefined]

EndpointEnv == [NoStoreEnv EXCEPT !["S3_ENDPOINT"] = JSString("set")]

---------------------------------------------------------------------------
(* Tiles, keys and the origin render engine *)

\* <<x, y, z>> argument triples of getTile
TileArgs ==
    { <<JSNum(0), JSNum(1), JSNum(1)>>,
      <<JSInfinity, JSNaN, JSNum(1)>>,
      <<JSNum(0), JSNum(1), JSUndefined>> }

zxy_as_given(a) == <<a[1], a[2], a[3]>>

\* the (z, x, y) order in which storage and the render layer are addressed
zxy(a) == <<a[3], a[1], a[2]>>

\* `${x}-${y}-${z}`
cacheKey_no_separator(a) ==
    TemplateString(a[1]) \o TemplateString(a[2]) \o TemplateString(a[3])

cacheKey(a) ==
    TemplateString(a[1]) \o "-" \o TemplateString(a[2]) \o "-"
        \o TemplateString(a[3])

S3Prefix == "tiles"

\* format: string = "png"
DefaultFormat(format) == IF format = JSUndefined THEN "png" ELSE format.kind

\* `${this.prefix}/${z}/${x}/${y}.${format}`
getTileKey(z, x, y, format) ==
    S3Prefix \o "/" \o TemplateString(z) \o "/" \o TemplateString(x) \o "/"
        \o TemplateString(y) \o "." \o format

\* s3Storage.getTile(z, x, y): the key of the durable lookup
s3KeyOf(a) == getTileKey(a[3], a[1], a[2], DefaultFormat(JSUndefined))

saveKeyOf_as_given(a) ==
    getTileKey(a[1], a[2], a[3], DefaultFormat(JSString("png")))

\* s3Storage.saveTile(z, x, y, buffer, "png"): the key of the durable write
saveKeyOf(a) == getTileKey(a[3], a[1], a[2], DefaultFormat(JSString("png")))

\* the typeof guard at the head of getTile
validParams(a) ==
    typeof(a[1]) = "number" /\ typeof(a[2]) = "number" /\ typeof(a[3]) = "number"

NoTile == [state |-> "none", layer |-> 0, zxy |-> <<>>]

\* a tile of the current render layer, in the state the engine holds it in
Tile(a, state) == [state |-> state, layer |-> renderLayer, zxy |-> zxy(a)]

\* tile.getImage(): the engine keeps a canvas for a LOADED tile only
getImage(tileRec) == IF tileRec.state = "LOADED" THEN "canvas" ELSE "null"

\* what the handler does on a CHANGE event, by the tile's state at that moment
handler_empty_waits(s) ==
    CASE s = "LOADED" -> "resolve"
      [] s = "ERROR" -> "reject"
      [] OTHER -> "wait"

handler(s) ==
    CASE s \in {"LOADED", "EMPTY"} -> "resolve"
      [] s = "ERROR" -> "reject"
      [] OTHER -> "wait"

---------------------------------------------------------------------------
(* getTile: the synchronous stretches between its suspension points *)

\* requests are numbered in the order they arrive
CallGuard(c) == pc[c] = "idle" /\ \A d \in Calls : d < c => pc[d] # "idle"

Done(c, out, res) ==
    /\ pc' = [pc EXCEPT ![c] = "done"]
    /\ outcome' = [outcome EXCEPT ![c] = out]
    /\ result' = [result EXCEPT ![c] = res]

extract_no_image_check(tileRec) ==
    IF tileRec.state = "ERROR"
    THEN [outcome |-> "TileLoadError", result |-> NullBuffer]
    ELSE [outcome |-> "ok", result |-> OriginBuffer(tileRec.zxy, tileRec.layer)]

\* getImage() / toBuffer() on the tile obtained from the render layer
extract(tileRec) ==
    IF tileRec.state = "ERROR"
    THEN [outcome |-> "TileLoadError", result |-> NullBuffer]
    ELSE IF getImage(tileRec) # "canvas"
    THEN [outcome |-> "InvalidTileData", result |-> NullBuffer]
    ELSE [outcome |-> "ok", result |-> OriginBuffer(tileRec.zxy, tileRec.layer)]

getTile_tail_no_memory_write(c, a, tileRec, logNow) ==
    LET e == extract(tileRec)
        ok == e.outcome = "ok"
    IN /\ Done(c, e.outcome, e.result)
       /\ tileCache' = tileCache
       /\ s3Saves' = IF ok /\ s3Enabled
                     THEN s3Saves \cup
                            {[call |-> c, key |-> saveKeyOf(a), body |-> e.result]}
                     ELSE s3Saves
       /\ log' = [log EXCEPT ![c] =
                    logNow \o (IF ok /\ s3Enabled THEN <<"s3Put">> ELSE <<>>)]

getTile_tail_rejects_stale(c, a, tileRec, logNow) ==
    LET e == extract(tileRec)
        ok == e.outcome = "ok"
        fresh == tileRec.layer = renderLayer
    IN /\ Done(c, e.outcome, e.result)
       /\ tileCache' = IF ok /\ fresh
                       THEN LRUCache_set(tileCache, cacheKey(a), e.result)
                       ELSE tileCache
       /\ s3Saves' = IF ok /\ s3Enabled
                     THEN s3Saves \cup
                            {[call |-> c, key |-> saveKeyOf(a), body |-> e.result]}
                     ELSE s3Saves
       /\ log' = [log EXCEPT ![c] =
                    logNow \o (IF ok /\ fresh THEN <<"memSet">> ELSE <<>>)
                           \o (IF ok /\ s3Enabled THEN <<"s3Put">> ELSE <<>>)]

getTile_tail_caches_failure(c, a, tileRec, logNow) ==
    LET e == extract(tileRec)
        ok == e.outcome = "ok"
    IN /\ Done(c, e.outcome, e.result)
       /\ tileCache' = LRUCache_set(tileCache, cacheKey(a), e.result)
       /\ s3Saves' = IF ok /\ s3Enabled
                     THEN s3Saves \cup
                            {[call |-> c, key |-> saveKeyOf(a), body |-> e.result]}
                     ELSE s3Saves
       /\ log' = [log EXCEPT ![c] =
                    logNow \o (IF ok THEN <<"memSet">> ELSE <<>>)
                           \o (IF ok /\ s3Enabled THEN <<"s3Put">> ELSE <<>>)]

\* from "tile load finished" to the return: extraction, the memory write and
\* the start of the durable write, with no suspension point in between
getTile_tail(c, a, tileRec, logNow) ==
    LET e == extract(tileRec)
        ok == e.outcome = "ok"
    IN /\ Done(c, e.outcome, e.result)
       /\ tileCache' = IF ok THEN LRUCache_set(tileCache, cacheKey(a), e.result)
                       ELSE tileCache
       /\ s3Saves' = IF ok /\ s3Enabled
                     THEN s3Saves \cup
                            {[call |-> c, key |-> saveKeyOf(a), body |-> e.result]}
                     ELSE s3Saves
       /\ log' = [log EXCEPT ![c] =
                    logNow \o (IF ok THEN <<"memSet">> ELSE <<>>)
                           \o (IF ok /\ s3Enabled THEN <<"s3Put">> ELSE <<>>)]

OnChange_keeps_timer(c, a, tileRec, logNow, timersNow, listenersNow) ==
    LET d == handler(tileRec.state)
    IN /\ handlerSaw' = [handlerSaw EXCEPT ![c] = Append(@, tileRec.state)]
       /\ timers' = timersNow
       /\ listeners' = IF d = "wait" THEN listenersNow ELSE listenersNow \ {c}
       /\ CASE d = "resolve" -> getTile_tail(c, a, tileRec, logNow)
            [] d = "reject" ->
                 /\ Done(c, "TileLoadError", NullBuffer)
                 /\ log' = [log EXCEPT ![c] = logNow]
                 /\ UNCHANGED <<geoVars, tileCache, s3Saves>>
            [] OTHER ->
                 /\ pc' = [pc EXCEPT ![c] = "wait"]
                 /\ log' = [log EXCEPT ![c] = logNow]
                 /\ UNCHANGED <<geoVars, outcome, result, tileCache, s3Saves>>

\* A CHANGE event reaches the handler of call c, whose tile is tileRec.  A
\* settled wait promise resumes the call before any other callback runs, so
\* the continuation after the await belongs to the same step.
OnChange(c, a, tileRec, logNow, timersNow, listenersNow) ==
    LET d == handler(tileRec.state)
    IN /\ handlerSaw' = [handlerSaw EXCEPT ![c] = Append(@, tileRec.state)]
       /\ timers' = IF d = "wait" THEN timersNow ELSE timersNow \ {c}
       /\ listeners' = IF d = "wait" THEN listenersNow ELSE listenersNow \ {c}
       /\ CASE d = "resolve" -> getTile_tail(c, a, tileRec, logNow)
            [] d = "reject" ->
                 /\ Done(c, "TileLoadError", NullBuffer)
                 /\ log' = [log EXCEPT ![c] = logNow]
                 /\ UNCHANGED <<geoVars, tileCache, s3Saves>>
            [] OTHER ->
                 /\ pc' = [pc EXCEPT ![c] = "wait"]
                 /\ log' = [log EXCEPT ![c] = logNow]
                 /\ UNCHANGED <<geoVars, outcome, result, tileCache, s3Saves>>

\* the states renderLayer.getTile(z, x, y) may hand a tile out in: new (IDLE),
\* or finished by earlier requests to the layer; "null" is no tile at all
EngineStates == {"null", "IDLE", "LOADING", "LOADED", "EMPTY", "ERROR"}

OriginAcquire_waits_for_empty(c, a, logNow) ==
    \E st \in EngineStates, restart \in BOOLEAN :
        LET starts == st = "IDLE" \/ (st = "ERROR" /\ restart)
            logReq == logNow \o <<"tileReq">>
        IN /\ (st # "ERROR" => restart)
           /\ IF st = "null"
              THEN /\ Done(c, "TileNull", NullBuffer)
                   /\ log' = [log EXCEPT ![c] = logReq]
                   /\ UNCHANGED <<geoVars, tiles, listeners, timers, handlerSaw,
                                  tileCache, s3Saves>>
              ELSE IF st = "LOADED"
              THEN /\ getTile_tail(c, a, Tile(a, st), logReq)
                   /\ tiles' = [tiles EXCEPT ![c] = Tile(a, st)]
                   /\ UNCHANGED <<geoVars, listeners, timers, handlerSaw>>
              ELSE IF starts
              THEN /\ tiles' = [tiles EXCEPT ![c] = Tile(a, "LOADING")]
                   /\ OnChange(c, a, Tile(a, "LOADING"), logReq \o <<"load">>,
                               timers \cup {c}, listeners \cup {c})
              ELSE /\ tiles' = [tiles EXCEPT ![c] = Tile(a, st)]
                   /\ pc' = [pc EXCEPT ![c] = "wait"]
                   /\ timers' = timers \cup {c}
                   /\ listeners' = listeners \cup {c}
                   /\ log' = [log EXCEPT ![c] = logReq \o <<"load">>]
                   /\ UNCHANGED <<geoVars, handlerSaw, outcome, result, tileCache,
                                  s3Saves>>

\* origin acquisition: the tile request, then either the tail at once or the
\* executor of the wait promise (setTimeout, addEventListener, load).  load()
\* starts an IDLE tile and, depending on the tile class, restarts an ERROR one;
\* a tile that starts loading dispatches CHANGE.  A tile the engine hands out
\* in LOADING is already being loaded for an earlier request.
OriginAcquire(c, a, logNow) ==
    \E st \in EngineStates, restart \in BOOLEAN :
        LET starts == st = "IDLE" \/ (st = "ERROR" /\ restart)
            logReq == logNow \o <<"tileReq">>
        IN /\ (st # "ERROR" => restart)
           /\ IF st = "null"
              THEN /\ Done(c, "TileNull", NullBuffer)
                   /\ log' = [log EXCEPT ![c] = logReq]
                   /\ UNCHANGED <<geoVars, tiles, listeners, timers, handlerSaw,
                                  tileCache, s3Saves>>
              ELSE IF st \in {"LOADED", "EMPTY"}
              THEN /\ getTile_tail(c, a, Tile(a, st), logReq)
                   /\ tiles' = [tiles EXCEPT ![c] = Tile(a, st)]
                   /\ UNCHANGED <<geoVars, listeners, timers, handlerSaw>>
              ELSE IF starts
              THEN /\ tiles' = [tiles EXCEPT ![c] = Tile(a, "LOADING")]
                   /\ OnChange(c, a, Tile(a, "LOADING"), logReq \o <<"load">>,
                               timers \cup {c}, listeners \cup {c})
              ELSE /\ tiles' = [tiles EXCEPT ![c] = Tile(a, st)]
                   /\ pc' = [pc EXCEPT ![c] = "wait"]
                   /\ timers' = timers \cup {c}
                   /\ listeners' = listeners \cup {c}
                   /\ log' = [log EXCEPT ![c] = logReq \o <<"load">>]
                   /\ UNCHANGED <<geoVars, handlerSaw, outcome, result, tileCache,
                                  s3Saves>>

\* the typeof guard rejects the call
getTile_invalid(c, a) ==
    /\ CallGuard(c)
    /\ ~validParams(a)
    /\ args' = [args EXCEPT ![c] = a]
    /\ startLayer' = [startLayer EXCEPT ![c] = renderLayer]
    /\ Done(c, "InvalidParameter", NullBuffer)
    /\ UNCHANGED <<geoVars, env, store, s3Enabled, renderLayer, tileCache, s3Objects, s3Saves,
                   tiles, listeners, timers, log, handlerSaw, s3Res,
                   lruTrace>>

memoryHit_then_s3(c, a) ==
    /\ CallGuard(c)
    /\ validParams(a)
    /\ LRUCache_getValue(tileCache, cacheKey(a)) # NullBuffer
    /\ s3Enabled
    /\ args' = [args EXCEPT ![c] = a]
    /\ startLayer' = [startLayer EXCEPT ![c] = renderLayer]
    /\ tileCache' = LRUCache_get(tileCache, cacheKey(a))
    /\ pc' = [pc EXCEPT ![c] = "s3"]
    /\ log' = [log EXCEPT ![c] = <<"memHit", "s3Get">>]
    /\ UNCHANGED <<geoVars, env, store, s3Enabled, renderLayer, s3Objects, s3Saves, outcome,
                   result, tiles, listeners, timers, handlerSaw, s3Res,
                   lruTrace>>

\* 1. the memory cache holds the tile
getTile_memoryHit(c, a) ==
    /\ CallGuard(c)
    /\ validParams(a)
    /\ LRUCache_getValue(tileCache, cacheKey(a)) # NullBuffer
    /\ args' = [args EXCEPT ![c] = a]
    /\ startLayer' = [startLayer EXCEPT ![c] = renderLayer]
    /\ tileCache' = LRUCache_get(tileCache, cacheKey(a))
    /\ Done(c, "ok", LRUCache_getValue(tileCache, cacheKey(a)))
    /\ log' = [log EXCEPT ![c] = <<"memHit">>]
    /\ UNCHANGED <<geoVars, env, store, s3Enabled, renderLayer, s3Objects, s3Saves, tiles,
                   listeners, timers, handlerSaw, s3Res, lruTrace>>

\* 2. memory miss with S3 enabled: suspend in s3Storage.getTile
getTile_s3Lookup(c, a) ==
    /\ CallGuard(c)
    /\ validParams(a)
    /\ LRUCache_getValue(tileCache, cacheKey(a)) = NullBuffer
    /\ s3Enabled
    /\ args' = [args EXCEPT ![c] = a]
    /\ startLayer' = [startLayer EXCEPT ![c] = renderLayer]
    /\ tileCache' = LRUCache_get(tileCache, cacheKey(a))
    /\ pc' = [pc EXCEPT ![c] = "s3"]
    /\ log' = [log EXCEPT ![c] = <<"memMiss", "s3Get">>]
    /\ UNCHANGED <<geoVars, env, store, s3Enabled, renderLayer, s3Objects, s3Saves, outcome,
                   result, tiles, listeners, timers, handlerSaw, s3Res,
                   lruTrace>>

\* 3. memory miss with S3 disabled: straight to the origin
getTile_noS3(c, a) ==
    /\ CallGuard(c)
    /\ validParams(a)
    /\ LRUCache_getValue(tileCache, cacheKey(a)) = NullBuffer
    /\ ~s3Enabled
    /\ args' = [args EXCEPT ![c] = a]
    /\ startLayer' = [startLayer EXCEPT ![c] = renderLayer]
    /\ OriginAcquire(c, a, <<"memMiss">>)
    /\ UNCHANGED <<geoVars, env, store, s3Enabled, renderLayer, s3Objects, s3Res, lruTrace>>

---------------------------------------------------------------------------
(* getTile resumed from s3Storage.getTile *)

s3Body(a) == (CHOOSE o \in s3Objects : o.key = s3KeyOf(a)).body

s3Holds(a) == \E o \in s3Objects : o.key = s3KeyOf(a)

s3Hit_no_memory_write(c) ==
    /\ pc[c] = "s3"
    /\ s3Holds(args[c])
    /\ s3Res' = [s3Res EXCEPT ![c] = "hit"]
    /\ Done(c, "ok", s3Body(args[c]))
    /\ UNCHANGED <<geoVars, env, store, s3Enabled, renderLayer, tileCache, s3Objects, s3Saves,
                   args, startLayer, tiles, listeners, timers, log,
                   handlerSaw, lruTrace>>

\* the store returned the object: write it to the memory cache and return it
getTile_s3Hit(c) ==
    /\ pc[c] = "s3"
    /\ s3Holds(args[c])
    /\ s3Res' = [s3Res EXCEPT ![c] = "hit"]
    /\ tileCache' = LRUCache_set(tileCache, cacheKey(args[c]), s3Body(args[c]))
    /\ log' = [log EXCEPT ![c] = Append(@, "memSet")]
    /\ Done(c, "ok", s3Body(args[c]))
    /\ UNCHANGED <<geoVars, env, store, s3Enabled, renderLayer, s3Objects, s3Saves, args,
                   startLayer, tiles, listeners, timers, handlerSaw,
                   lruTrace>>

getTile_s3Miss_joins_inflight(c) ==
    /\ pc[c] = "s3"
    /\ ~s3Holds(args[c])
    /\ s3Res' = [s3Res EXCEPT ![c] = "miss"]
    /\ IF \E d \in Calls \ {c} : pc[d] = "wait" /\ args[d] = args[c]
       THEN /\ pc' = [pc EXCEPT ![c] = "wait"]
            /\ UNCHANGED <<geoVars, outcome, result, tiles, listeners, timers, log,
                           handlerSaw, tileCache, s3Saves>>
       ELSE OriginAcquire(c, args[c], log[c])
    /\ UNCHANGED <<geoVars, env, store, s3Enabled, renderLayer, s3Objects, args, startLayer,
                   lruTrace>>

\* TileStorage.getTile returned null (NoSuchKey / NotFound)
getTile_s3Miss(c) ==
    /\ pc[c] = "s3"
    /\ ~s3Holds(args[c])
    /\ s3Res' = [s3Res EXCEPT ![c] = "miss"]
    /\ OriginAcquire(c, args[c], log[c])
    /\ UNCHANGED <<geoVars, env, store, s3Enabled, renderLayer, s3Objects, args, startLayer,
                   lruTrace>>

getTile_s3Error_retries(c) ==
    /\ pc[c] = "s3"
    /\ s3Res' = [s3Res EXCEPT ![c] = "error"]
    /\ log' = [log EXCEPT ![c] = Append(@, "s3Get")]
    /\ UNCHANGED <<geoVars, env, store, s3Enabled, renderLayer, tileCache, s3Objects, s3Saves, pc,
                   args, startLayer, outcome, result, tiles, listeners,
                   timers, handlerSaw, lruTrace>>

s3Error_rethrown(c) ==
    /\ pc[c] = "s3"
    /\ s3Res' = [s3Res EXCEPT ![c] = "error"]
    /\ Done(c, "DurableStoreError", NullBuffer)
    /\ UNCHANGED <<geoVars, env, store, s3Enabled, renderLayer, tileCache, s3Objects, s3Saves,
                   args, startLayer, tiles, listeners, timers, log,
                   handlerSaw, lruTrace>>

\* TileStorage.getTile threw: the catch logs a warning and the call goes on
getTile_s3Error(c) ==
    /\ pc[c] = "s3"
    /\ s3Res' = [s3Res EXCEPT ![c] = "error"]
    /\ OriginAcquire(c, args[c], log[c])
    /\ UNCHANGED <<geoVars, env, store, s3Enabled, renderLayer, s3Objects, args, startLayer,
                   lruTrace>>

---------------------------------------------------------------------------
(* The origin wait: CHANGE events, the timeout, and the resumed call *)

\* the render engine finishes loading call c's tile and dispatches CHANGE
TileChange(c, s) ==
    /\ tiles[c].state = "LOADING"
    /\ s \in {"LOADED", "EMPTY", "ERROR"}
    /\ tiles' = [tiles EXCEPT ![c].state = s]
    /\ IF c \in listeners
       THEN OnChange(c, args[c], tiles'[c], log[c], timers, listeners)
       ELSE UNCHANGED <<geoVars, pc, outcome, result, tileCache, s3Saves, log, timers,
                        listeners, handlerSaw>>
    /\ UNCHANGED <<geoVars, env, store, s3Enabled, renderLayer, s3Objects, args, startLayer, s3Res,
                   lruTrace>>

timeout_without_reject(c) ==
    /\ c \in timers
    /\ timers' = timers \ {c}
    /\ listeners' = listeners \ {c}
    /\ log' = [log EXCEPT ![c] = Append(@, "timerFired")]
    /\ UNCHANGED <<geoVars, env, store, s3Enabled, renderLayer, tileCache, s3Objects, s3Saves, pc,
                   args, startLayer, outcome, result, tiles, handlerSaw,
                   s3Res, lruTrace>>

timeout_keeps_listener(c) ==
    /\ c \in timers
    /\ timers' = timers \ {c}
    /\ log' = [log EXCEPT ![c] = Append(@, "timerFired")]
    /\ Done(c, "TileLoadTimeout", NullBuffer)
    /\ UNCHANGED <<geoVars, env, store, s3Enabled, renderLayer, tileCache, s3Objects, s3Saves,
                   args, startLayer, tiles, listeners, handlerSaw, s3Res,
                   lruTrace>>

\* the setTimeout callback removes the listener and rejects; the rejection
\* resumes the call, whose outer catch rethrows it
timeout(c) ==
    /\ c \in timers
    /\ timers' = timers \ {c}
    /\ listeners' = listeners \ {c}
    /\ log' = [log EXCEPT ![c] = Append(@, "timerFired")]
    /\ Done(c, "TileLoadTimeout", NullBuffer)
    /\ UNCHANGED <<geoVars, env, store, s3Enabled, renderLayer, tileCache, s3Objects, s3Saves,
                   args, startLayer, tiles, handlerSaw, s3Res, lruTrace>>

---------------------------------------------------------------------------
(* The durable write started by getTile, and the resets *)

\* PutObject succeeded
saveTile_done(w) ==
    /\ w \in s3Saves
    /\ s3Saves' = s3Saves \ {w}
    /\ s3Objects' = {o \in s3Objects : o.key # w.key}
                        \cup {[key |-> w.key, body |-> w.body]}
    /\ UNCHANGED <<geoVars, env, store, s3Enabled, renderLayer, tileCache, pc, args, startLayer,
                   outcome, result, tiles, listeners, timers, log, handlerSaw,
                   s3Res, lruTrace>>

saveTile_failed_drops_entry(w) ==
    /\ w \in s3Saves
    /\ s3Saves' = s3Saves \ {w}
    /\ tileCache' = LRUCache_delete(tileCache, cacheKey(args[w.call]))
    /\ UNCHANGED <<geoVars, env, store, s3Enabled, renderLayer, s3Objects, pc, args, startLayer,
                   outcome, result, tiles, listeners, timers, log, handlerSaw,
                   s3Res, lruTrace>>

\* PutObject failed: the .catch logs a warning
saveTile_failed(w) ==
    /\ w \in s3Saves
    /\ s3Saves' = s3Saves \ {w}
    /\ UNCHANGED <<geoVars, env, store, s3Enabled, renderLayer, tileCache, s3Objects, pc, args,
                   startLayer, outcome, result, tiles, listeners, timers, log,
                   handlerSaw, s3Res, lruTrace>>

Reset_keeps_cache ==
    /\ renderLayer < MaxResets
    /\ renderLayer' = renderLayer + 1
    /\ UNCHANGED <<geoVars, env, store, s3Enabled, tileCache, s3Objects, s3Saves, pc, args,
                   startLayer, outcome, result, tiles, listeners, timers, log,
                   handlerSaw, s3Res, lruTrace>>

Reset_cancels_waiting ==
    /\ renderLayer < MaxResets
    /\ renderLayer' = renderLayer + 1
    /\ tileCache' = LRUCache_clear(tileCache)
    /\ listeners' = {}
    /\ UNCHANGED <<geoVars, env, store, s3Enabled, s3Objects, s3Saves, pc, args, startLayer,
                   outcome, result, tiles, timers, log, handlerSaw, s3Res,
                   lruTrace>>

\* the body shared by the interval callback and resetRenderLayer
Reset ==
    /\ renderLayer < MaxResets
    /\ renderLayer' = renderLayer + 1
    /\ tileCache' = LRUCache_clear(tileCache)
    /\ UNCHANGED <<geoVars, env, store, s3Enabled, s3Objects, s3Saves, pc, args, startLayer,
                   outcome, result, tiles, listeners, timers, log, handlerSaw,
                   s3Res, lruTrace>>

cacheResetInterval == Reset

resetRenderLayer == Reset

---------------------------------------------------------------------------
(* Coordinate transforms (gcj02.ts).  The file defines the module twice, at *)
(* lines 1-260 and again at lines 262-720; `version` is the definition in   *)
(* use, and a name ending in _2 is the second definition where it differs.  *)
(* Degrees are counted in units of 10^-6 degree, metres in decimetres.      *)
(* Coordinate arrays hold JavaScript values: numbers, NaN and undefined.    *)

Versions == {1, 2}

\* the China bounding region of outOfChina, in 10^-6 degree
LonMin == 72004000
LonMax == 137834700
LatMin == 829300
LatMax == 55827100

\* SPHERICAL_MERCATOR_CONSTANTS.MAX_LATITUDE, in 10^-6 degree
MAX_LATITUDE == 85051129

Max(a, b) == IF a >= b THEN a ELSE b

Min(a, b) == IF a <= b THEN a ELSE b

\* a < b on JavaScript values: false when either side is NaN or undefined
Less(a, b) == isFinite(a) /\ isFinite(b) /\ a.int < b.int

\* a + b and a - b on JavaScript values
Plus(a, b) == IF isFinite(a) /\ isFinite(b) THEN JSNum(a.int + b.int) ELSE JSNaN

Minus(a, b) == IF isFinite(a) /\ isFinite(b) THEN JSNum(a.int - b.int) ELSE JSNaN

outOfChina_open_west(lon, lat) ==
    \/ ~Less(JSNum(LonMin), lon) \/ Less(JSNum(LonMax), lon)
    \/ Less(lat, JSNum(LatMin)) \/ Less(JSNum(LatMax), lat)

outOfChina(lon, lat) ==
    \/ Less(lon, JSNum(LonMin)) \/ Less(JSNum(LonMax), lon)
    \/ Less(lat, JSNum(LatMin)) \/ Less(JSNum(LatMax), lat)

\* The numeric functions of the file, tabulated at the arguments that the
\* inputs of the model lead to.  Every entry is the value the source's
\* formula gives in double arithmetic, rounded to the unit of the model.

\* delta(wgLon, wgLat) = [dLon, dLat], with transformLat and transformLon
DeltaTable ==
    <<72004000, 829300>> :> <<3709, 1263>> @@
    <<72004100, 26949459>> :> <<3816, -3822>> @@
    <<72004100, 30000000>> :> <<3886, -3099>> @@
    <<72007709, 830563>> :> <<3716, 1274>> @@
    <<72007986, 29677085>> :> <<3887, -3104>> @@
    <<72007986, 29996901>> :> <<3895, -3088>> @@
    <<72011425, 831837>> :> <<3723, 1284>> @@
    <<72011881, 29993813>> :> <<3904, -3076>> @@
    <<72015148, 833121>> :> <<3730, 1295>> @@
    <<72015785, 29990737>> :> <<3912, -3064>> @@
    <<105000000, 50150338>> :> <<4621, 1044>> @@
    <<105000000, 53802012>> :> <<5124, 1321>> @@
    <<121460088, 31236204>> :> <<4565, -1905>> @@
    <<121464640, 31234287>> :> <<4552, -1917>> @@
    <<121469178, 31230416>> :> <<4538, -1930>> @@
    <<121469178, 31232358>> :> <<4538, -1929>> @@
    <<121473701, 28054760>> :> <<4265, -3160>> @@
    <<121473701, 31230416>> :> <<4523, -1942>> @@
    <<121478224, 30866546>> :> <<4477, -2158>> @@
    <<121478224, 31228474>> :> <<4508, -1956>> @@
    <<121482732, 31226518>> :> <<4492, -1969>> @@
    <<121487224, 31224549>> :> <<4477, -1983>> @@
    <<137807486, 55819493>> :> <<9155, 2570>> @@
    <<137816600, 55822046>> :> <<9114, 2553>> @@
    <<137821206, 30006958>> :> <<4493, -2302>> @@
    <<137825671, 55824582>> :> <<9071, 2536>> @@
    <<137825671, 55827100>> :> <<9072, 2535>> @@
    <<137825685, 30004647>> :> <<4479, -2311>> @@
    <<137830150, 30000000>> :> <<4464, -2319>> @@
    <<137830150, 30002328>> :> <<4465, -2319>> @@
    <<137834600, 26949459>> :> <<4162, -3231>> @@
    <<137834600, 30000000>> :> <<4450, -2328>> @@
    <<137834700, 50150337>> :> <<7497, 1985>> @@
    <<137834700, 55827100>> :> <<9029, 2518>>

\* RADIUS * lon * RAD_PER_DEG
ForwardXTable ==
    -125155452 :> -139322412 @@
    -102081103 :> -113636164 @@
    -91701015 :> -102081103 @@
    -82376423 :> -91701015 @@
    -74000000 :> -82376423 @@
    -70270788 :> -78225083 @@
    6 :> 7 @@
    7 :> 8 @@
    8 :> 9 @@
    9 :> 10 @@
    829299 :> 923171 @@
    829300 :> 923173 @@
    829322 :> 923197 @@
    829324 :> 923199 @@
    921799 :> 1026142 @@
    923204 :> 1027706 @@
    923205 :> 1027707 @@
    924611 :> 1029272 @@
    10000000 :> 11131949 @@
    11131949 :> 12392029 @@
    12392029 :> 13794744 @@
    13794744 :> 15356239 @@
    30000000 :> 33395847 @@
    31166815 :> 34694740 @@
    31167553 :> 34695561 @@
    31171587 :> 34700052 @@
    31175622 :> 34704544 @@
    31176360 :> 34705365 @@
    31230416 :> 34765540 @@
    32554809 :> 36239848 @@
    32562781 :> 36248722 @@
    35031515 :> 38996904 @@
    35032506 :> 38998007 @@
    35035498 :> 39001338 @@
    35038491 :> 39004670 @@
    35039482 :> 39005773 @@
    36624565 :> 40770279 @@
    36627093 :> 40773093 @@
    36629622 :> 40775909 @@
    40700000 :> 45307033 @@
    43781511 :> 48737355 @@
    44630027 :> 49681919 @@
    49681919 :> 55305659 @@
    55827100 :> 62146443 @@
    55827101 :> 62146445 @@
    64720075 :> 72046058 @@
    64721712 :> 72047880 @@
    64725339 :> 72051918 @@
    64726972 :> 72053736 @@
    72000214 :> 80150272 @@
    72000284 :> 80150350 @@
    72000291 :> 80150357 @@
    72003999 :> 80154485 @@
    72004000 :> 80154486 @@
    72004100 :> 80154597 @@
    72007709 :> 80158615 @@
    72007916 :> 80158845 @@
    72007986 :> 80158923 @@
    75235739 :> 83752042 @@
    75240729 :> 83757596 @@
    75240731 :> 83757599 @@
    75245719 :> 83763151 @@
    80154485 :> 89227565 @@
    80154486 :> 89227566 @@
    80154597 :> 89227689 @@
    89000000 :> 99074347 @@
    89227565 :> 99327671 @@
    89227566 :> 99327672 @@
    89227689 :> 99327809 @@
    99327671 :> 110571058 @@
    99327672 :> 110571059 @@
    99327809 :> 110571211 @@
    104995379 :> 116880321 @@
    105000000 :> 116885465 @@
    105004621 :> 116890609 @@
    116885465 :> 130116304 @@
    121469178 :> 135218870 @@
    121469436 :> 135219158 @@
    121473701 :> 135223905 @@
    121477966 :> 135228653 @@
    121478224 :> 135228940 @@
    130116304 :> 144844807 @@
    135223905 :> 150530562 @@
    137825671 :> 153426835 @@
    137827203 :> 153428541 @@
    137830150 :> 153431821 @@
    137830438 :> 153432142 @@
    137834600 :> 153436775 @@
    137834700 :> 153436886 @@
    137834701 :> 153436887 @@
    137838762 :> 153441408 @@
    137839050 :> 153441729 @@
    137842197 :> 153445232 @@
    137843729 :> 153446937 @@
    144844807 :> 161240502 @@
    150530562 :> 167569855 @@
    153436775 :> 170805037 @@
    153436886 :> 170805160 @@
    153436887 :> 170805161 @@
    167569855 :> 186537909 @@
    170805037 :> 190139297 @@
    170805160 :> 190139434 @@
    170805161 :> 190139435 @@
    190139297 :> 211662097 @@
    190139434 :> 211662250 @@
    190139435 :> 211662251 @@
    200375086 :> 223056525

\* RADIUS * Math.log((1 + sin) / (1 - sin)) / 2, sin = Math.sin(lat * RAD_PER_DEG)
ForwardYTable ==
    -82376423 :> -172761510 @@
    -74000000 :> -125155452 @@
    -59263884 :> -82376423 @@
    -53237653 :> -70270788 @@
    5 :> 6 @@
    6 :> 7 @@
    7 :> 8 @@
    8 :> 9 @@
    744972 :> 829322 @@
    744973 :> 829324 @@
    828037 :> 921799 @@
    829299 :> 923204 @@
    829300 :> 923205 @@
    830563 :> 924611 @@
    923204 :> 1027750 @@
    923205 :> 1027752 @@
    1027750 :> 1144147 @@
    1027752 :> 1144150 @@
    1144147 :> 1273743 @@
    1144150 :> 1273747 @@
    10000000 :> 11188900 @@
    11131949 :> 12470736 @@
    26945637 :> 31166815 @@
    26946228 :> 31167553 @@
    26949459 :> 31171587 @@
    26952690 :> 31175622 @@
    26953281 :> 31176360 @@
    28051600 :> 32554809 @@
    28057920 :> 32562781 @@
    29996901 :> 35031515 @@
    29997672 :> 35032506 @@
    30000000 :> 35035498 @@
    30002328 :> 35038491 @@
    30003099 :> 35039482 @@
    31228474 :> 36624565 @@
    31230416 :> 36627093 @@
    31232358 :> 36629622 @@
    35035498 :> 41687062 @@
    36561432 :> 43781511 @@
    36627093 :> 43872550 @@
    40700000 :> 49681919 @@
    41687062 :> 51142175 @@
    43872550 :> 54457401 @@
    49681919 :> 63913710 @@
    50148352 :> 64720075 @@
    50149294 :> 64721712 @@
    50151382 :> 64725339 @@
    50152322 :> 64726972 @@
    51142175 :> 66464815 @@
    54457401 :> 72572629 @@
    55824582 :> 75235739 @@
    55827100 :> 75240729 @@
    55827101 :> 75240731 @@
    55829618 :> 75245719 @@
    63913710 :> 93278855 @@
    72003999 :> 117546254 @@
    72004000 :> 117546257 @@
    72004100 :> 117546618 @@
    75240729 :> 130366026 @@
    75240731 :> 130366035 @@
    80154485 :> 156385109 @@
    80154486 :> 156385115 @@
    80154597 :> 156385838 @@
    85051129 :> 200375086

\* x / RADIUS / RAD_PER_DEG
InverseXTable ==
    -82376423 :> -74000000 @@
    -77156985 :> -69311299 @@
    -74000000 :> -66475331 @@
    -66475331 :> -59715806 @@
    -59715806 :> -53643621 @@
    -59263884 :> -53237653 @@
    6 :> 5 @@
    7 :> 6 @@
    8 :> 7 @@
    9 :> 8 @@
    829299 :> 744972 @@
    829300 :> 744973 @@
    923164 :> 829292 @@
    923165 :> 829293 @@
    923204 :> 829328 @@
    923205 :> 829329 @@
    8069704 :> 7249138 @@
    8983153 :> 8069704 @@
    10000000 :> 8983153 @@
    11131949 :> 10000000 @@
    30000000 :> 26949459 @@
    31230416 :> 28054760 @@
    33036380 :> 29677085 @@
    34360482 :> 30866546 @@
    35035498 :> 31472923 @@
    36627093 :> 32902677 @@
    40700000 :> 36561432 @@
    44419333 :> 39902566 @@
    45307033 :> 40700000 @@
    49681919 :> 44630027 @@
    55827100 :> 50150337 @@
    55827101 :> 50150338 @@
    58105092 :> 52196692 @@
    58105093 :> 52196693 @@
    58105174 :> 52196766 @@
    59892124 :> 53802010 @@
    59892126 :> 53802012 @@
    64682293 :> 58105092 @@
    64682294 :> 58105093 @@
    64682384 :> 58105174 @@
    72003999 :> 64682293 @@
    72004000 :> 64682294 @@
    72004100 :> 64682384 @@
    75240729 :> 67589897 @@
    75240731 :> 67589899 @@
    80150272 :> 72000214 @@
    80150357 :> 72000291 @@
    80154485 :> 72003999 @@
    80154486 :> 72004000 @@
    80154597 :> 72004100 @@
    80158615 :> 72007709 @@
    80158923 :> 72007986 @@
    84731887 :> 76115949 @@
    85051129 :> 76402729 @@
    94323105 :> 84731887 @@
    98025675 :> 88057962 @@
    105000000 :> 94323105 @@
    109121682 :> 98025675 @@
    111228435 :> 99918203 @@
    111228516 :> 99918276 @@
    111228517 :> 99918277 @@
    116885465 :> 105000000 @@
    121473701 :> 109121682 @@
    123818928 :> 111228435 @@
    123819018 :> 111228516 @@
    123819019 :> 111228517 @@
    135218870 :> 121469178 @@
    135223905 :> 121473701 @@
    135228940 :> 121478224 @@
    137834600 :> 123818928 @@
    137834700 :> 123819018 @@
    137834701 :> 123819019 @@
    153426835 :> 137825671 @@
    153431821 :> 137830150 @@
    153436775 :> 137834600 @@
    153436886 :> 137834700 @@
    153436887 :> 137834701 @@
    153441729 :> 137839050 @@
    153446937 :> 137843729 @@
    200375086 :> 180000002

\* (2 * Math.atan(Math.exp(y / RADIUS)) - Math.PI / 2) / RAD_PER_DEG
InverseYTable ==
    -139322412 :> -77156985 @@
    -125155452 :> -74000000 @@
    -82376423 :> -59263884 @@
    -74000000 :> -55196005 @@
    7 :> 6 @@
    8 :> 7 @@
    9 :> 8 @@
    10 :> 9 @@
    669186 :> 601129 @@
    669187 :> 601130 @@
    744951 :> 669186 @@
    744952 :> 669187 @@
    829299 :> 744951 @@
    829300 :> 744952 @@
    921799 :> 828037 @@
    923204 :> 829299 @@
    923205 :> 829300 @@
    924611 :> 830563 @@
    1027706 :> 923164 @@
    1027707 :> 923165 @@
    10000000 :> 8946574 @@
    11131949 :> 9949614 @@
    22741125 :> 20009130 @@
    23558127 :> 20697228 @@
    26007420 :> 22741125 @@
    26996557 :> 23558127 @@
    29431065 :> 25547196 @@
    30000000 :> 26007420 @@
    31230416 :> 26996557 @@
    34306262 :> 29431065 @@
    35031515 :> 29996901 @@
    35032506 :> 29997672 @@
    35035498 :> 30000000 @@
    35038491 :> 30002328 @@
    35039482 :> 30003099 @@
    36624565 :> 31228474 @@
    36627093 :> 31230416 @@
    36629622 :> 31232358 @@
    37259171 :> 31714689 @@
    37259172 :> 31714690 @@
    39001338 :> 33036380 @@
    40700000 :> 34306262 @@
    40773093 :> 34360482 @@
    44752937 :> 37259171 @@
    44752938 :> 37259172 @@
    47638918 :> 39294134 @@
    49681919 :> 40700000 @@
    55305659 :> 44419333 @@
    55827100 :> 44752937 @@
    55827101 :> 44752938 @@
    60469925 :> 47638918 @@
    72003999 :> 54159385 @@
    72004000 :> 54159386 @@
    72004100 :> 54159438 @@
    75235739 :> 55824582 @@
    75240729 :> 55827100 @@
    75240731 :> 55827101 @@
    75245719 :> 55829618 @@
    80154485 :> 58228388 @@
    80154486 :> 58228388 @@
    80154597 :> 58228441 @@
    83757596 :> 59892124 @@
    83757599 :> 59892126 @@
    85051129 :> 60469925 @@
    105000000 :> 68177676 @@
    116885465 :> 71819701 @@
    121473701 :> 73062639 @@
    135223905 :> 76312453 @@
    137834600 :> 76856499 @@
    137834700 :> 76856520 @@
    137834701 :> 76856520 @@
    153436775 :> 79691140 @@
    153436886 :> 79691158 @@
    153436887 :> 79691158 @@
    200375086 :> 85051129

delta(wgLon, wgLat) ==
    IF isFinite(wgLon) /\ isFinite(wgLat)
    THEN LET d == DeltaTable[<<wgLon.int, wgLat.int>>]
         IN <<JSNum(d[1]), JSNum(d[2])>>
    ELSE <<JSNaN, JSNaN>>

\* Math.max(Math.min(MAX_LATITUDE, lat), -MAX_LATITUDE)
clampLatitude(lat) ==
    IF isFinite(lat)
    THEN JSNum(Max(Min(MAX_LATITUDE, lat.int), -MAX_LATITUDE))
    ELSE JSNaN

forward_x(lon) == IF isFinite(lon) THEN JSNum(ForwardXTable[lon.int]) ELSE JSNaN

forward_y(lat) == IF isFinite(lat) THEN JSNum(ForwardYTable[lat.int]) ELSE JSNaN

inverse_x(x) == IF isFinite(x) THEN JSNum(InverseXTable[x.int]) ELSE JSNaN

inverse_y(y) == IF isFinite(y) THEN JSNum(InverseYTable[y.int]) ELSE JSNaN

\* Memory: the arrays of a call by reference, and the accesses made so far.
\* heap[ref] is an array, element i of JavaScript at position i + 1.
NewMemory(arrays) ==
    [heap |-> arrays, reads |-> {}, writes |-> {}, stale |-> FALSE]

\* array[i]: undefined outside the array
Load(m, ref, i) ==
    LET a == m.heap[ref]
    IN IF 0 <= i /\ i < Len(a) THEN a[i + 1] ELSE JSUndefined

\* the record of a read of array[i]; stale when this forEachPoint call has
\* already written array[i]
Read(m, ref, i) ==
    [m EXCEPT !.reads = @ \cup {<<ref, i>>},
              !.stale = @ \/ (<<ref, i>> \in m.writes)]

\* array[i] = v: an index past the end extends the array, a negative index
\* names a property and changes no element
Store(m, ref, i, v) ==
    LET a == m.heap[ref]
        b == [k \in 1..Max(Len(a), i + 1) |->
                IF k = i + 1 THEN v
                ELSE IF k <= Len(a) THEN a[k] ELSE JSUndefined]
    IN [m EXCEPT !.heap[ref] = IF i < 0 THEN a ELSE b,
                 !.writes = @ \cup {<<ref, i>>}]

\* The point transforms handed to forEachPoint

toWGS84_adds(m, input, output, offset) ==
    LET lng == Load(m, input, offset)
        lat == Load(m, input, offset + 1)
        m1 == Read(Read(m, input, offset), input, offset + 1)
    IN IF ~outOfChina(lng, lat)
       THEN LET deltaD == delta(lng, lat)
            IN Store(Store(m1, output, offset, Plus(lng, deltaD[1])),
                     output, offset + 1, Plus(lat, deltaD[2]))
       ELSE Store(Store(m1, output, offset, lng), output, offset + 1, lat)

\* gcj02.toWGS84, first definition
toWGS84(m, input, output, offset) ==
    LET lng == Load(m, input, offset)
        lat == Load(m, input, offset + 1)
        m1 == Read(Read(m, input, offset), input, offset + 1)
    IN IF ~outOfChina(lng, lat)
       THEN LET deltaD == delta(lng, lat)
            IN Store(Store(m1, output, offset, Minus(lng, deltaD[1])),
                     output, offset + 1, Minus(lat, deltaD[2]))
       ELSE Store(Store(m1, output, offset, lng), output, offset + 1, lat)

\* gcj02.fromWGS84, first definition
fromWGS84(m, input, output, offset) ==
    LET lng == Load(m, input, offset)
        lat == Load(m, input, offset + 1)
        m1 == Read(Read(m, input, offset), input, offset + 1)
    IN IF ~outOfChina(lng, lat)
       THEN LET deltaD == delta(lng, lat)
            IN Store(Store(m1, output, offset, Plus(lng, deltaD[1])),
                     output, offset + 1, Plus(lat, deltaD[2]))
       ELSE Store(Store(m1, output, offset, lng), output, offset + 1, lat)

\* gcj02.toWGS84, second definition
toWGS84_2(m, input, output, offset) ==
    LET lng == Load(m, input, offset)
        lat == Load(m, input, offset + 1)
        m1 == Read(Read(m, input, offset), input, offset + 1)
    IN IF ~outOfChina(lng, lat)
       THEN LET deltaD == delta(lng, lat)
            IN Store(Store(m1, output, offset, Plus(lng, deltaD[1])),
                     output, offset + 1, Plus(lat, deltaD[2]))
       ELSE Store(Store(m1, output, offset, lng), output, offset + 1, lat)

\* gcj02.fromWGS84, second definition
fromWGS84_2(m, input, output, offset) ==
    LET lng == Load(m, input, offset)
        lat == Load(m, input, offset + 1)
        m1 == Read(Read(m, input, offset), input, offset + 1)
    IN IF ~outOfChina(lng, lat)
       THEN LET deltaD == delta(lng, lat)
            IN Store(Store(m1, output, offset, Minus(lng, deltaD[1])),
                     output, offset + 1, Minus(lat, deltaD[2]))
       ELSE Store(Store(m1, output, offset, lng), output, offset + 1, lat)

\* sphericalMercator.forward: lat and sin are computed before the first write
forward(m, input, output, offset) ==
    LET lat == clampLatitude(Load(m, input, offset + 1))
        m1 == Read(Read(m, input, offset + 1), input, offset)
        m2 == Store(m1, output, offset, forward_x(Load(m1, input, offset)))
    IN Store(m2, output, offset + 1, forward_y(lat))

\* sphericalMercator.inverse: input[offset + 1] is read after output[offset]
\* is written
inverse(m, input, output, offset) ==
    LET m1 == Store(Read(m, input, offset), output, offset,
                    inverse_x(Load(m, input, offset)))
        m2 == Read(m1, input, offset + 1)
    IN Store(m2, output, offset + 1, inverse_y(Load(m2, input, offset + 1)))

transformFunc(f, m, input, output, offset) ==
    CASE f = "toWGS84" -> toWGS84(m, input, output, offset)
      [] f = "fromWGS84" -> fromWGS84(m, input, output, offset)
      [] f = "toWGS84_2" -> toWGS84_2(m, input, output, offset)
      [] f = "fromWGS84_2" -> fromWGS84_2(m, input, output, offset)
      [] f = "forward" -> forward(m, input, output, offset)
      [] f = "inverse" -> inverse(m, input, output, offset)

\* the gcj02 object of a definition: the names of its two point transforms
gcj02(ver) ==
    IF ver = 1 THEN [toWGS84 |-> "toWGS84", fromWGS84 |-> "fromWGS84"]
    ELSE [toWGS84 |-> "toWGS84_2", fromWGS84 |-> "fromWGS84_2"]

\* The transforms a caller can name.  A stage is one forEachPoint transform
\* with the arrays it is called on: "input" is the caller's input array,
\* "opt_output" the caller's opt_output argument, "prev" the array that the
\* previous stage returned.
Stage(f, input, output) == [f |-> f, input |-> input, output |-> output]

ll2smerc == "forward"

smerc2ll == "inverse"

ll2gmerc_from_input(ver) ==
    << Stage(gcj02(ver).fromWGS84, "input", "opt_output"),
       Stage(ll2smerc, "input", "prev") >>

\* projzh.ll2gmerc
ll2gmerc(ver) ==
    << Stage(gcj02(ver).fromWGS84, "input", "opt_output"),
       Stage(ll2smerc, "prev", "prev") >>

gmerc2ll_offsets_again ==
    << Stage(smerc2ll, "input", "input"),
       Stage(gcj02(1).fromWGS84, "prev", "opt_output") >>

\* projzh.gmerc2ll, first definition
gmerc2ll ==
    << Stage(smerc2ll, "input", "input"),
       Stage(gcj02(1).toWGS84, "prev", "opt_output") >>

\* projzh.gmerc2ll, second definition
gmerc2ll_2 ==
    << Stage(smerc2ll, "input", "input"),
       Stage(gcj02(2).toWGS84, "prev", "prev") >>

smerc2gmerc_honours_output(ver) ==
    << Stage(smerc2ll, "input", "opt_output"),
       Stage(gcj02(ver).fromWGS84, "prev", "prev"),
       Stage(ll2smerc, "prev", "prev") >>

\* projzh.smerc2gmerc
smerc2gmerc(ver) ==
    << Stage(smerc2ll, "input", "input"),
       Stage(gcj02(ver).fromWGS84, "prev", "prev"),
       Stage(ll2smerc, "prev", "prev") >>

\* projzh.gmerc2smerc
gmerc2smerc(ver) ==
    << Stage(smerc2ll, "input", "input"),
       Stage(gcj02(ver).toWGS84, "prev", "prev"),
       Stage(ll2smerc, "prev", "prev") >>

\* the stages of gmerc2ll called on the array a previous call returned
OnPrev(pipeline) ==
    [i \in 1..Len(pipeline) |->
        [pipeline[i] EXCEPT !.input = IF @ = "input" THEN "prev" ELSE @,
                          !.output = IF @ = "input" THEN "prev" ELSE @]]

BaseFns == {"toWGS84", "fromWGS84", "forward", "inverse"}

ComposedFns == {"ll2gmerc", "gmerc2ll", "smerc2gmerc", "gmerc2smerc"}

\* two calls in a row: fromWGS84(toWGS84(p)) and gmerc2ll(ll2gmerc(p))
RoundTrips == {"fromWGS84_toWGS84", "gmerc2ll_ll2gmerc"}

\* transforms of geographic coordinates, and of projected coordinates
GeographicFns == {"toWGS84", "fromWGS84", "forward", "ll2gmerc"} \cup RoundTrips

ProjectedFns == {"inverse", "gmerc2ll", "smerc2gmerc", "gmerc2smerc"}

StagesOf(fn, ver) ==
    CASE fn = "toWGS84" -> << Stage(gcj02(ver).toWGS84, "input", "opt_output") >>
      [] fn = "fromWGS84" -> << Stage(gcj02(ver).fromWGS84, "input", "opt_output") >>
      [] fn = "forward" -> << Stage("forward", "input", "opt_output") >>
      [] fn = "inverse" -> << Stage("inverse", "input", "opt_output") >>
      [] fn = "ll2gmerc" -> ll2gmerc(ver)
      [] fn = "gmerc2ll" -> IF ver = 1 THEN gmerc2ll ELSE gmerc2ll_2
      [] fn = "smerc2gmerc" -> smerc2gmerc(ver)
      [] fn = "gmerc2smerc" -> gmerc2smerc(ver)
      [] fn = "fromWGS84_toWGS84" ->
            << Stage(gcj02(ver).toWGS84, "input", "opt_output"),
               Stage(gcj02(ver).fromWGS84, "prev", "opt_output") >>
      [] fn = "gmerc2ll_ll2gmerc" ->
            ll2gmerc(ver) \o OnPrev(IF ver = 1 THEN gmerc2ll ELSE gmerc2ll_2)

\* Sample points <<lon, lat>>: inside the region, outside it, on its
\* boundary, one unit outside each boundary, just inside the west and the
\* east boundary, and above MAX_LATITUDE
Shanghai == <<121473701, 31230416>>
NewYork == <<-74000000, 40700000>>

SamplePoints ==
    { Shanghai, NewYork,
      <<LonMin, LatMin>>, <<LonMax, LatMax>>,
      <<LonMin - 1, 30000000>>, <<LonMax + 1, 30000000>>,
      <<105000000, LatMin - 1>>, <<105000000, LatMax + 1>>,
      <<LonMin + 100, 30000000>>, <<LonMax - 100, 30000000>>,
      <<10000000, 89000000>> }

\* the arrays built from a set of points and two of them, s and n: one
\* point; no, one and a half and two points; points with a trailing third
\* component, whole and cut
SampleArrays(s, n, points) ==
    LET arr(q) == [i \in 1..Len(q) |-> JSNum(q[i])]
    IN {arr(p) : p \in points}
       \cup { <<>>, arr(<<s[1]>>), arr(s \o n), arr(s \o <<n[1]>>),
              arr(s \o <<7>> \o n \o <<8>>), arr(s \o <<7, n[1]>>) }

\* a sample point in Web-Mercator coordinates
Projected(p) ==
    <<ForwardXTable[p[1]],
      ForwardYTable[Max(Min(MAX_LATITUDE, p[2]), -MAX_LATITUDE)]>>

GeographicArrays == SampleArrays(Shanghai, NewYork, SamplePoints)

ProjectedArrays ==
    SampleArrays(Projected(Shanghai), Projected(NewYork),
                 {Projected(p) : p \in SamplePoints})

\* opt_dimension: omitted, or an integer
Dimensions == {JSUndefined} \cup {JSNum(d) : d \in -1..3}

\* opt_output: 0 omitted, 1 the input array itself, 2 a separate array
OutputModes == {0, 1, 2}

NoCall == [fn |-> "none", opt_output |-> 0, opt_dimension |-> JSUndefined]

NoFrame ==
    [on |-> FALSE, f |-> "none", input |-> 0, output |-> 0, len |-> 0,
     dimension |-> 0, offset |-> 0, iter |-> 0]

\* no transform is in use
GeoIdle ==
    /\ version = 1
    /\ input0 = <<>>
    /\ call = NoCall
    /\ mem = NewMemory(<< <<>> >>)
    /\ stages = <<>>
    /\ frame = NoFrame
    /\ prev = 0
    /\ returned = 0

\* a caller invokes fn(input, opt_output, opt_dimension); a separate output
\* array is one the caller allocated with the input's length
Call(fn, opt_output, opt_dimension) ==
    /\ call = NoCall
    /\ \/ fn \in GeographicFns /\ input0 \in GeographicArrays
       \/ fn \in ProjectedFns /\ input0 \in ProjectedArrays
    /\ fn \in RoundTrips => opt_output = 0 /\ opt_dimension = JSUndefined
    /\ call' = [fn |-> fn, opt_output |-> opt_output,
                opt_dimension |-> opt_dimension]
    /\ mem' = IF opt_output = 2
              THEN NewMemory(<<input0, [k \in 1..Len(input0) |-> JSUndefined]>>)
              ELSE mem
    /\ stages' = StagesOf(fn, version)
    /\ UNCHANGED <<version, input0, frame, prev, returned>>
    /\ UNCHANGED <<orchVars, tileCache, lruTrace>>

\* the array a stage names
Resolve(name) ==
    CASE name = "input" -> 1
      [] name = "prev" -> prev
      [] name = "opt_output" -> call.opt_output

dimension_one(opt_dimension) == 1

\* opt_dimension || 2 (first definition)
dimension(opt_dimension) ==
    IF isFinite(opt_dimension) /\ opt_dimension.int # 0
    THEN opt_dimension.int
    ELSE 2

\* opt_dimension ?? 2 (second definition)
dimension_2(opt_dimension) ==
    IF opt_dimension = JSUndefined THEN 2 ELSE opt_dimension.int

forEachPoint_enter_no_slice ==
    /\ call # NoCall /\ returned = 0 /\ ~frame.on /\ stages # <<>>
    /\ LET st == Head(stages)
           input == Resolve(st.input)
           opt_output == Resolve(st.output)
           len == Len(mem.heap[input])
           output == IF opt_output # 0 THEN opt_output ELSE Len(mem.heap) + 1
       IN /\ mem' = [mem EXCEPT
                        !.heap = IF opt_output # 0 THEN @
                                 ELSE Append(@, [k \in 1..len |-> JSUndefined]),
                        !.writes = {}]
          /\ frame' = [on |-> TRUE, f |-> st.f, input |-> input,
                       output |-> output, len |-> len,
                       dimension |-> IF version = 1
                                     THEN dimension(call.opt_dimension)
                                     ELSE dimension_2(call.opt_dimension),
                       offset |-> 0, iter |-> 0]
    /\ UNCHANGED <<version, input0, call, stages, prev, returned>>
    /\ UNCHANGED <<orchVars, tileCache, lruTrace>>

\* forEachPoint, from the call to the loop: len, dimension and the output
\* array, which without opt_output is Array.from({length: len}) for
\* dimension 2 and input.slice() otherwise
forEachPoint_enter ==
    /\ call # NoCall /\ returned = 0 /\ ~frame.on /\ stages # <<>>
    /\ LET st == Head(stages)
           input == Resolve(st.input)
           opt_output == Resolve(st.output)
           len == Len(mem.heap[input])
           dim == IF version = 1 THEN dimension(call.opt_dimension)
                  ELSE dimension_2(call.opt_dimension)
           allocated == IF dim # 2 THEN mem.heap[input]
                        ELSE [k \in 1..len |-> JSUndefined]
           output == IF opt_output # 0 THEN opt_output ELSE Len(mem.heap) + 1
       IN /\ mem' = [mem EXCEPT
                        !.heap = IF opt_output # 0 THEN @
                                 ELSE Append(@, allocated),
                        !.writes = {}]
          /\ frame' = [on |-> TRUE, f |-> st.f, input |-> input,
                       output |-> output, len |-> len, dimension |-> dim,
                       offset |-> 0, iter |-> 0]
    /\ UNCHANGED <<version, input0, call, stages, prev, returned>>
    /\ UNCHANGED <<orchVars, tileCache, lruTrace>>

\* one iteration of the loop: transformFunc(input, output, offset), then
\* offset += dimension.  A loop whose offset does not advance is followed
\* for MaxSpin iterations.
forEachPoint_iterate ==
    /\ frame.on
    /\ frame.offset < frame.len
    /\ frame.dimension > 0 \/ frame.iter < MaxSpin
    /\ mem' = transformFunc(frame.f, mem, frame.input, frame.output,
                            frame.offset)
    /\ frame' = [frame EXCEPT !.offset = @ + frame.dimension,
                              !.iter = @ + 1]
    /\ UNCHANGED <<version, input0, call, stages, prev, returned>>
    /\ UNCHANGED <<orchVars, tileCache, lruTrace>>

\* the loop ends and forEachPoint returns output; the caller's next stage
\* takes it over, or the caller's own return hands it out
forEachPoint_return ==
    /\ frame.on
    /\ ~(frame.offset < frame.len)
    /\ frame' = NoFrame
    /\ prev' = frame.output
    /\ stages' = Tail(stages)
    /\ returned' = IF Tail(stages) = <<>> THEN frame.output ELSE 0
    /\ UNCHANGED <<version, input0, call, mem>>
    /\ UNCHANGED <<orchVars, tileCache, lruTrace>>

---------------------------------------------------------------------------
(* TileStorage (storage.ts): reads of the durable store *)

\* error.name of what client.send or the body stream may fail with
ErrorNames == {"NoSuchKey", "NotFound", "AccessDenied", "TimeoutError"}

\* the format argument: omitted, or a file extension
Formats == {JSUndefined, JSString("png"), JSString("webp")}

\* what a call settles with: a value it returns, or an error it raises
Returns(kind, bool, bytes) ==
    [settled |-> "return", kind |-> kind, bool |-> bool, bytes |-> bytes,
     name |-> ""]

ReturnsNull == Returns("null", FALSE, <<>>)

ReturnsBoolean(b) == Returns("boolean", b, <<>>)

ReturnsBuffer(bytes) == Returns("buffer", FALSE, bytes)

Throws(name) ==
    [settled |-> "throw", kind |-> "error", bool |-> FALSE, bytes |-> <<>>,
     name |-> name]

\* what the store answered: nothing yet, a rejected send, a response with or
\* without Body, and a body stream that failed
Answer(kind, name) == [kind |-> kind, name |-> name]

StoreIdle ==
    [op |-> "none", command |-> "none", key |-> "", stage |-> "idle",
     answer |-> Answer("none", ""), chunks |-> <<>>,
     ret |-> [settled |-> "none", kind |-> "none", bool |-> FALSE,
              bytes |-> <<>>, name |-> ""]]

RECURSIVE Concat(_)
\* Buffer.concat(chunks)
Concat(chunks) ==
    IF chunks = <<>> THEN <<>> ELSE Head(chunks) \o Concat(Tail(chunks))

Chunks == {<<0>>, <<1, 2>>}

hasTile_catch_any_missing(name) ==
    IF name \in {"NoSuchKey", "NotFound"} THEN ReturnsBoolean(FALSE)
    ELSE Throws(name)

\* the catch of hasTile
hasTile_catch(name) ==
    IF name = "NotFound" THEN ReturnsBoolean(FALSE) ELSE Throws(name)

\* the catch of getTile
getTile_catch(name) ==
    IF name = "NoSuchKey" \/ name = "NotFound" THEN ReturnsNull
    ELSE Throws(name)

\* hasTile up to its await: the key and the HeadObjectCommand
TileStorage_hasTile(a, format) ==
    /\ store.stage = "idle"
    /\ store' = [StoreIdle EXCEPT
                   !.op = "hasTile", !.command = "HeadObject",
                   !.key = getTileKey(a[3], a[1], a[2], DefaultFormat(format)),
                   !.stage = "send"]
    /\ UNCHANGED <<geoVars, env, s3Enabled, renderLayer, tileCache, s3Objects,
                   s3Saves, pc, args, startLayer, outcome, result, tiles,
                   listeners, timers, log, handlerSaw, s3Res, lruTrace>>

\* getTile up to its await: the key and the GetObjectCommand
TileStorage_getTile(a, format) ==
    /\ store.stage = "idle"
    /\ store' = [StoreIdle EXCEPT
                   !.op = "getTile", !.command = "GetObject",
                   !.key = getTileKey(a[3], a[1], a[2], DefaultFormat(format)),
                   !.stage = "send"]
    /\ UNCHANGED <<geoVars, env, s3Enabled, renderLayer, tileCache, s3Objects,
                   s3Saves, pc, args, startLayer, outcome, result, tiles,
                   listeners, timers, log, handlerSaw, s3Res, lruTrace>>

\* client.send rejects: the catch block of the running call decides
send_rejected(name) ==
    /\ store.stage = "send"
    /\ store' = [store EXCEPT
                   !.stage = "done", !.answer = Answer("rejected", name),
                   !.ret = IF store.op = "hasTile" THEN hasTile_catch(name)
                           ELSE getTile_catch(name)]
    /\ UNCHANGED <<geoVars, env, s3Enabled, renderLayer, tileCache, s3Objects,
                   s3Saves, pc, args, startLayer, outcome, result, tiles,
                   listeners, timers, log, handlerSaw, s3Res, lruTrace>>

\* client.send resolves: hasTile returns true; getTile returns null when the
\* response has no Body and otherwise returns the promise of the stream, on
\* which it has subscribed to data, error and end
send_resolved(body) ==
    /\ store.stage = "send"
    /\ store.op = "hasTile" => ~body
    /\ store' =
         IF store.op = "hasTile"
         THEN [store EXCEPT !.stage = "done", !.answer = Answer("found", ""),
                            !.ret = ReturnsBoolean(TRUE)]
         ELSE IF ~body
         THEN [store EXCEPT !.stage = "done", !.answer = Answer("nobody", ""),
                            !.ret = ReturnsNull]
         ELSE [store EXCEPT !.stage = "stream", !.answer = Answer("body", "")]
    /\ UNCHANGED <<geoVars, env, s3Enabled, renderLayer, tileCache, s3Objects,
                   s3Saves, pc, args, startLayer, outcome, result, tiles,
                   listeners, timers, log, handlerSaw, s3Res, lruTrace>>

\* stream.on("data", chunk => chunks.push(Buffer.from(chunk)))
stream_data(chunk) ==
    /\ store.stage = "stream"
    /\ Len(store.chunks) < MaxChunks
    /\ store' = [store EXCEPT !.chunks = Append(@, chunk)]
    /\ UNCHANGED <<geoVars, env, s3Enabled, renderLayer, tileCache, s3Objects,
                   s3Saves, pc, args, startLayer, outcome, result, tiles,
                   listeners, timers, log, handlerSaw, s3Res, lruTrace>>

\* stream.on("end", () => resolve(Buffer.concat(chunks)))
stream_end ==
    /\ store.stage = "stream"
    /\ store' = [store EXCEPT !.stage = "done",
                              !.ret = ReturnsBuffer(Concat(store.chunks))]
    /\ UNCHANGED <<geoVars, env, s3Enabled, renderLayer, tileCache, s3Objects,
                   s3Saves, pc, args, startLayer, outcome, result, tiles,
                   listeners, timers, log, handlerSaw, s3Res, lruTrace>>

\* stream.on("error", reject): the returned promise is not awaited inside the
\* try, so the rejection reaches the caller without passing the catch
stream_error(name) ==
    /\ store.stage = "stream"
    /\ store' = [store EXCEPT !.stage = "done",
                              !.answer = Answer("streamError", name),
                              !.ret = Throws(name)]
    /\ UNCHANGED <<geoVars, env, s3Enabled, renderLayer, tileCache, s3Objects,
                   s3Saves, pc, args, startLayer, outcome, result, tiles,
                   listeners, timers, log, handlerSaw, s3Res, lruTrace>>

---------------------------------------------------------------------------
(* Specifications *)

OrchInit ==
    /\ renderLayer = 0
    /\ store = StoreIdle
    /\ s3Saves = {}
    /\ pc = [c \in Calls |-> "idle"]
    /\ args = [c \in Calls |-> <<>>]
    /\ startLayer = [c \in Calls |-> 0]
    /\ outcome = [c \in Calls |-> "none"]
    /\ result = [c \in Calls |-> NullBuffer]
    /\ tiles = [t \in Calls |-> NoTile]
    /\ listeners = {}
    /\ timers = {}
    /\ log = [c \in Calls |-> <<>>]
    /\ handlerSaw = [c \in Calls |-> <<>>]
    /\ s3Res = [c \in Calls |-> "none"]

\* the tile the store may hold from an earlier run of the service
StoredArgs == <<JSNum(0), JSNum(1), JSNum(1)>>

Init ==
    /\ OrchInit
    /\ env \in {NoStoreEnv, EndpointEnv}
    /\ s3Enabled = (s3Storage(env) = "TileStorage")
    /\ s3Objects \in IF s3Enabled
                     THEN {{}, {[key |-> saveKeyOf(StoredArgs),
                                 body |-> StoredBuffer(zxy(StoredArgs))]}}
                     ELSE {{}}
    /\ tileCache = NewLRUCache(CacheMaxSize)
    /\ lruTrace = <<>>
    /\ GeoIdle

Next ==
    \/ \E c \in Calls, a \in TileArgs :
          \/ getTile_invalid(c, a)
          \/ getTile_memoryHit(c, a)
          \/ getTile_s3Lookup(c, a)
          \/ getTile_noS3(c, a)
    \/ \E c \in Calls :
          \/ getTile_s3Hit(c)
          \/ getTile_s3Miss(c)
          \/ getTile_s3Error(c)
          \/ timeout(c)
    \/ \E c \in Calls, s \in {"LOADED", "EMPTY", "ERROR"} : TileChange(c, s)
    \/ \E w \in s3Saves : saveTile_done(w) \/ saveTile_failed(w)
    \/ cacheResetInterval
    \/ resetRenderLayer

Spec == Init /\ [][Next]_vars

LruInit ==
    /\ OrchInit
    /\ env = NoStoreEnv
    /\ s3Enabled = (s3Storage(env) = "TileStorage")
    /\ s3Objects = {}
    /\ tileCache \in {NewLRUCache(n) : n \in 1..MaxLruSize}
    /\ lruTrace = <<>>
    /\ GeoIdle

LruNext ==
    \/ \E key \in LruKeys : LruGet(key) \/ LruSet(key) \/ LruHas(key) \/ LruDelete(key)
    \/ LruClear

LruSpec == LruInit /\ [][LruNext]_vars

\* The cache key on its own: one getTile argument triple of integers, and the
\* memory write made under its key.
KeyTriples ==
    {<<JSNum(x), JSNum(y), JSNum(z)>> :
        x \in -MaxCoord..MaxCoord, y \in -MaxCoord..MaxCoord,
        z \in -MaxCoord..MaxCoord}

KeyInit ==
    /\ \E a \in KeyTriples : args = [c \in Calls |-> IF c = 1 THEN a ELSE <<>>]
    /\ store = StoreIdle
    /\ renderLayer = 0
    /\ env = NoStoreEnv
    /\ s3Enabled = (s3Storage(env) = "TileStorage")
    /\ s3Objects = {}
    /\ s3Saves = {}
    /\ pc = [c \in Calls |-> "idle"]
    /\ startLayer = [c \in Calls |-> 0]
    /\ outcome = [c \in Calls |-> "none"]
    /\ result = [c \in Calls |-> NullBuffer]
    /\ tiles = [t \in Calls |-> NoTile]
    /\ listeners = {}
    /\ timers = {}
    /\ log = [c \in Calls |-> <<>>]
    /\ handlerSaw = [c \in Calls |-> <<>>]
    /\ s3Res = [c \in Calls |-> "none"]
    /\ tileCache = NewLRUCache(CacheMaxSize)
    /\ lruTrace = <<>>
    /\ GeoIdle

\* const cacheKey = `${x}-${y}-${z}`; ... tileCache.set(cacheKey, buffer)
KeyStore ==
    /\ LRUCache_size(tileCache) = 0
    /\ tileCache' = LRUCache_set(tileCache, cacheKey(args[1]),
                                 OriginBuffer(zxy(args[1]), renderLayer))
    /\ UNCHANGED <<geoVars, orchVars, lruTrace>>

KeyNext == KeyStore

KeySpec == KeyInit /\ [][KeyNext]_vars

\* the durable lookup of a suspended call returns or fails
s3Response(c) == getTile_s3Hit(c) \/ getTile_s3Miss(c) \/ getTile_s3Error(c)

\* the event loop delivers every pending durable response and every armed
\* timer that is not cleared
Fairness ==
    \A c \in Calls : WF_vars(s3Response(c)) /\ WF_vars(timeout(c))

FairSpec == Spec /\ Fairness

\* The tile service started under every environment createDefaultStorage can
\* find.
ConfInit ==
    /\ OrchInit
    /\ env \in Envs
    /\ s3Enabled = (s3Storage(env) = "TileStorage")
    /\ s3Objects = {}
    /\ tileCache = NewLRUCache(CacheMaxSize)
    /\ lruTrace = <<>>
    /\ GeoIdle

ConfSpec == ConfInit /\ [][Next]_vars

\* TileStorage on its own: one read of the store, answered in every way
StoreInit ==
    /\ OrchInit
    /\ env = EndpointEnv
    /\ s3Enabled = (s3Storage(env) = "TileStorage")
    /\ s3Objects = {}
    /\ tileCache = NewLRUCache(CacheMaxSize)
    /\ lruTrace = <<>>
    /\ GeoIdle

StoreNext ==
    \/ \E a \in {b \in TileArgs : validParams(b)}, format \in Formats :
          TileStorage_hasTile(a, format) \/ TileStorage_getTile(a, format)
    \/ \E name \in ErrorNames : send_rejected(name) \/ stream_error(name)
    \/ \E body \in BOOLEAN : send_resolved(body)
    \/ \E chunk \in Chunks : stream_data(chunk)
    \/ stream_end

StoreSpec == StoreInit /\ [][StoreNext]_vars

\* The coordinate transforms on their own: one definition of the module,
\* one input array, one call.
GeoInit ==
    /\ OrchInit
    /\ env = NoStoreEnv
    /\ s3Enabled = (s3Storage(env) = "TileStorage")
    /\ s3Objects = {}
    /\ tileCache = NewLRUCache(CacheMaxSize)
    /\ lruTrace = <<>>
    /\ version \in Versions
    /\ input0 \in GeographicArrays \cup ProjectedArrays
    /\ call = NoCall
    /\ mem = NewMemory(<<input0>>)
    /\ stages = <<>>
    /\ frame = NoFrame
    /\ prev = 0
    /\ returned = 0

GeoNext ==
    \/ \E fn \in BaseFns \cup ComposedFns \cup RoundTrips,
          opt_output \in OutputModes, opt_dimension \in Dimensions :
          Call(fn, opt_output, opt_dimension)
    \/ forEachPoint_enter
    \/ forEachPoint_iterate
    \/ forEachPoint_return

GeoSpec == GeoInit /\ [][GeoNext]_vars

---------------------------------------------------------------------------
(* Properties *)

Has(seq, e) == \E i \in 1..Len(seq) : seq[i] = e

Last(seq) == seq[Len(seq)]

\* the tier consultations of a call, in the order it made them
TierOps(c) ==
    SelectSeq(log[c], LAMBDA e : e \in {"memHit", "memMiss", "s3Get", "tileReq"})

\* C1: within one getTile call the tiers are consulted in the order memory,
\* durable, origin; a memory hit returns with no durable lookup and no origin
\* tile request, and a durable hit returns with no origin tile request.
THM_C1 ==
    \A c \in Calls :
        /\ TierOps(c) \in { <<>>, <<"memHit">>, <<"memMiss">>,
                           <<"memMiss", "s3Get">>,
                           <<"memMiss", "s3Get", "tileReq">>,
                           <<"memMiss", "tileReq">> }
        /\ Has(log[c], "memHit") => pc[c] = "done" /\ outcome[c] = "ok"
        /\ s3Res[c] = "hit" =>
              /\ pc[c] = "done" /\ outcome[c] = "ok"
              /\ ~Has(log[c], "tileReq")

\* a call served by the durable tier, then a call served by the memory tier
WIT_C1 ==
    /\ s3Res[1] = "hit" /\ TierOps(1) = <<"memMiss", "s3Get">>
    /\ pc[2] = "done" /\ TierOps(2) = <<"memHit">>

AllFinite(a) == \A i \in 1..3 : isFinite(a[i])

\* C2: a getTile call in which x, y or z is not a finite number fails with
\* InvalidParameter and performs no memory-tier get or set, no durable-tier
\* lookup or write and no origin tile request.
CE_C2 ==
    \A c \in Calls :
        (pc[c] # "idle" /\ ~AllFinite(args[c])) =>
            /\ pc[c] = "done"
            /\ outcome[c] = "InvalidParameter"
            /\ log[c] = <<>>

\* C3: an LRUCache built with a positive maxSize never holds more than maxSize
\* entries, whatever get, set, has, delete and clear operations are applied.
THM_C3 == LRUCache_size(tileCache) <= tileCache.maxSize

TraceOps == [i \in 1..Len(lruTrace) |-> <<lruTrace[i].op, lruTrace[i].key>>]

\* a set of an absent key arrived at a full cache of capacity 2
WIT_C3 ==
    /\ tileCache.maxSize = 2
    /\ TraceOps = << <<"set", "a">>, <<"has", "a">>, <<"set", "b">>, <<"set", "c">> >>
    /\ LRUCache_size(tileCache) = 2

\* the position in the trace of the latest touch of key: a set, or a get that hit
LastTouch(tr, key) ==
    LET S == {i \in 1..Len(tr) :
                /\ tr[i].key = key
                /\ tr[i].op = "set" \/ (tr[i].op = "get" /\ tr[i].hit)}
    IN IF S = {} THEN 0 ELSE CHOOSE i \in S : \A j \in S : j <= i

\* the step is a set of an absent key on a cache at capacity
SetAtCapacity ==
    /\ Len(lruTrace') = Len(lruTrace) + 1
    /\ Last(lruTrace').op = "set"
    /\ ~MapHas(tileCache.cache, Last(lruTrace').key)
    /\ Len(tileCache.cache) >= tileCache.maxSize

EvictsOldestTouch ==
    LET m == tileCache.cache
        n == tileCache'.cache
        key == Last(lruTrace').key
        victim == CHOOSE v \in MapKeys(m) :
                      \A w \in MapKeys(m) : LastTouch(lruTrace, v) <= LastTouch(lruTrace, w)
    IN /\ MapKeys(n) = (MapKeys(m) \ {victim}) \cup {key}
       /\ Len(n) = Len(m)
       /\ \A w \in MapKeys(m) \ {victim} : MapGet(n, w) = MapGet(m, w)

EvictionExamples ==
    /\ (/\ tileCache.maxSize = 2
        /\ TraceOps = << <<"set", "a">>, <<"set", "b">>, <<"set", "c">> >>)
           => MapKeys(tileCache.cache) = {"b", "c"}
    /\ (/\ tileCache.maxSize = 2
        /\ TraceOps = << <<"set", "a">>, <<"set", "b">>, <<"get", "a">>, <<"set", "c">> >>)
           => MapKeys(tileCache.cache) = {"a", "c"}

\* C4: a set of an absent key on a cache at capacity removes exactly one entry,
\* the one whose latest touch (a get that hit, or a set) is the oldest, and keeps
\* every other entry with its value; with capacity 2, set a, set b, set c evicts
\* a, and set a, set b, get a, set c evicts b.
THM_C4 == [][SetAtCapacity => EvictsOldestTouch]_vars /\ []EvictionExamples

WIT_C4 ==
    /\ tileCache.maxSize = 2
    /\ TraceOps = << <<"set", "a">>, <<"set", "b">>, <<"get", "a">>, <<"set", "c">> >>
    /\ MapKeys(tileCache.cache) = {"a", "c"}
    /\ MapGet(tileCache.cache, "a") = TestBuffer(1)

TimerFired(c) == Has(log[c], "timerFired")

Terminal == {"LOADED", "EMPTY", "ERROR"}

THM_C6 ==
    \A c \in Calls :
        LET h == handlerSaw[c]
            n == Len(h)
        IN /\ \A i \in 1..(n - 1) : h[i] \in {"IDLE", "LOADING"}
           /\ pc[c] = "wait" =>
                 /\ \A i \in 1..n : h[i] \in {"IDLE", "LOADING"}
                 /\ c \in listeners /\ c \in timers
           /\ (n > 0 /\ h[n] \in {"IDLE", "LOADING"} /\ ~TimerFired(c)) =>
                 pc[c] = "wait"
           /\ (n > 0 /\ h[n] \in {"LOADED", "EMPTY"}) =>
                 /\ pc[c] = "done"
                 /\ outcome[c] = extract(tiles[c]).outcome
                 /\ result[c] = extract(tiles[c]).result
                 /\ c \notin listeners /\ c \notin timers
           /\ (n > 0 /\ h[n] = "ERROR") =>
                 /\ pc[c] = "done" /\ outcome[c] = "TileLoadError"
                 /\ c \notin listeners /\ c \notin timers

\* one wait ended by ERROR, another still waiting after a LOADING notification
WIT_C6 ==
    /\ handlerSaw[1] = <<"LOADING", "ERROR">> /\ outcome[1] = "TileLoadError"
    /\ handlerSaw[2] = <<"LOADING">> /\ pc[2] = "wait" /\ 2 \in listeners

\* what the origin path alone makes of a call that reached it
OriginOutcome(c) ==
    IF TimerFired(c) THEN "TileLoadTimeout"
    ELSE IF tiles[c] = NoTile THEN "TileNull"
    ELSE extract(tiles[c]).outcome

\* C7: a durable lookup that fails does not fail the call; the call goes on to
\* the origin tile request, and its final outcome is the one of the origin path.
THM_C7 ==
    \A c \in Calls :
        s3Res[c] = "error" =>
            /\ TierOps(c) = <<"memMiss", "s3Get", "tileReq">>
            /\ outcome[c] # "DurableStoreError"
            /\ pc[c] = "done" => outcome[c] = OriginOutcome(c)
            /\ (pc[c] = "done" /\ outcome[c] = "ok") =>
                  result[c] = OriginBuffer(zxy(args[c]), tiles[c].layer)

\* a failed durable lookup followed by origin success, and one by origin failure
WIT_C7 ==
    /\ s3Res[1] = "error" /\ outcome[1] = "ok" /\ result[1].from = "origin"
    /\ s3Res[2] = "error" /\ outcome[2] = "TileLoadError"

\* the step in which call c returns bytes obtained from the origin
ReturnsFromOrigin(c) ==
    /\ pc[c] # "done"
    /\ pc'[c] = "done"
    /\ outcome'[c] = "ok"
    /\ Has(log'[c], "tileReq")

\* C8: the step in which a call returns bytes obtained from the origin is the
\* step that extracts them and writes them to the memory tier under the call's
\* key: at its end the cache holds exactly the returned bytes under that key.
THM_C8 ==
    [][\A c \in Calls :
          ReturnsFromOrigin(c) =>
              /\ result'[c] = extract(tiles'[c]).result
              /\ Len(tileCache'.cache) > 0
              /\ Last(tileCache'.cache) =
                    [key |-> cacheKey(args'[c]), value |-> result'[c]]
              /\ renderLayer' = renderLayer
              /\ \A d \in Calls \ {c} : pc'[d] = pc[d]]_vars

\* a call returned origin bytes that the memory tier holds under "0-1-1"
WIT_C8 ==
    \E c \in Calls :
        /\ pc[c] = "done" /\ outcome[c] = "ok" /\ Has(log[c], "tileReq")
        /\ cacheKey(args[c]) = "0-1-1"
        /\ MapGet(tileCache.cache, "0-1-1") = result[c]
        /\ result[c] = OriginBuffer(<<JSNum(1), JSNum(0), JSNum(1)>>, 0)

SaveOf(c) == {w \in s3Saves : w.call = c}

\* a durable write ends without changing the stored objects
SaveEndsWithoutEffect ==
    /\ \E w \in s3Saves : s3Saves' = s3Saves \ {w}
    /\ s3Objects' = s3Objects

\* C9: the durable write after an origin success is fire-and-forget: it is
\* still in flight when the call returns the bytes, and a write that fails
\* changes neither the call's outcome and result nor the memory tier.
THM_C9 ==
    /\ [](\A w \in s3Saves :
             /\ pc[w.call] = "done" /\ outcome[w.call] = "ok"
             /\ result[w.call] = w.body)
    /\ [][/\ \A c \in Calls :
                (ReturnsFromOrigin(c) /\ s3Enabled) => SaveOf(c)' # {}
          /\ SaveEndsWithoutEffect =>
                UNCHANGED <<tileCache, pc, outcome, result>>]_vars

\* a call returned origin bytes, its durable write has failed, and the memory
\* tier still holds the bytes
WIT_C9 ==
    \E c \in Calls :
        /\ outcome[c] = "ok" /\ Has(log[c], "s3Put")
        /\ SaveOf(c) = {}
        /\ ~\E o \in s3Objects : o.body = result[c]
        /\ MapGet(tileCache.cache, cacheKey(args[c])) = result[c]

\* the step in which the durable lookup of call c returns bytes
DurableHit(c) == pc[c] = "s3" /\ s3Res'[c] = "hit"

THM_C11 ==
    \A c \in Calls :
        (/\ pc[c] # "idle" /\ tiles[c].state \in {"LOADED", "EMPTY"}
         /\ ~TimerFired(c)
         /\ getImage(tiles[c]) # "canvas") =>
            /\ pc[c] = "done" /\ outcome[c] = "InvalidTileData"
            /\ result[c] = NullBuffer
            /\ ~Has(log[c], "memSet") /\ ~Has(log[c], "s3Put")

\* an EMPTY tile reached through the wait, and one handed out EMPTY at once
WIT_C11 ==
    /\ handlerSaw[1] = <<"LOADING", "EMPTY">> /\ outcome[1] = "InvalidTileData"
    /\ handlerSaw[2] = <<>> /\ tiles[2].state = "EMPTY"
    /\ outcome[2] = "InvalidTileData"

\* the step replaces the render layer
ResetStep == renderLayer' # renderLayer

\* C12: a reset, from the interval timer or from resetRenderLayer, is one
\* step: it installs a render layer never used before and leaves the memory
\* tier empty, so no state, and hence no getTile step, has the new render layer
\* together with an entry the memory tier held before the reset; the calls in
\* flight are left as they are.
THM_C12 ==
    [][ResetStep =>
          /\ renderLayer' \notin 0..renderLayer
          /\ LRUCache_size(tileCache') = 0
          /\ tileCache'.maxSize = tileCache.maxSize
          /\ \A i \in 1..Len(tileCache.cache) :
                ~MapHas(tileCache'.cache, tileCache.cache[i].key)
          /\ UNCHANGED <<pc, args, tiles, listeners, timers, outcome, result,
                         s3Saves, s3Objects>>]_vars

\* a reset emptied a memory tier that held the first call's tile
WIT_C12 ==
    /\ pc[1] = "done" /\ outcome[1] = "ok" /\ Has(log[1], "memSet")
    /\ pc[2] = "idle"
    /\ renderLayer = 1
    /\ LRUCache_size(tileCache) = 0

\* C13: the tile of a call is requested from the render layer that was current
\* when the call started, whatever resets ran after the start.
CE_C13 ==
    \A c \in Calls :
        tiles[c] # NoTile => tiles[c].layer = startLayer[c]

\* the step delivers state s of the tile of call c, which waits on a tile of a
\* render layer that a reset has replaced, with its timer still armed
StaleTileReaches(c, s) ==
    /\ pc[c] = "wait" /\ c \in listeners /\ c \in timers
    /\ tiles[c].layer < renderLayer
    /\ tiles[c].state = "LOADING" /\ tiles'[c].state = s

CompletesWithTileBytes(c) ==
    /\ pc'[c] = "done" /\ outcome'[c] = "ok"
    /\ result'[c] = OriginBuffer(zxy(args[c]), tiles[c].layer)

LateReturn(c) ==
    /\ ReturnsFromOrigin(c)
    /\ tiles'[c].layer < renderLayer

\* C15: a reset between a call's memory miss and its memory write does not
\* make the write fail or be skipped: the call writes the bytes of the tile of
\* the replaced render layer into the memory tier the reset emptied.
THM_C15 ==
    [][\A c \in Calls :
          LateReturn(c) =>
              /\ Has(log[c], "memMiss")
              /\ MapGet(tileCache'.cache, cacheKey(args[c])) =
                    OriginBuffer(zxy(args[c]), tiles'[c].layer)
              /\ Has(log'[c], "memSet")]_vars

\* after a reset, with no call started since, the memory tier holds bytes of
\* the render layer the reset replaced
WIT_C15 ==
    /\ renderLayer = 1
    /\ \A c \in Calls : pc[c] # "idle" => startLayer[c] = 0
    /\ \E c \in Calls :
          /\ pc[c] = "done" /\ tiles[c].layer = 0
          /\ MapGet(tileCache.cache, cacheKey(args[c])) =
                OriginBuffer(zxy(args[c]), 0)

\* call c has missed the memory tier and, where it is enabled, the durable tier
MissedCaches(c) ==
    /\ Has(log[c], "memMiss")
    /\ pc[c] \notin {"idle", "s3"}
    /\ s3Enabled => s3Res[c] \in {"miss", "error"}

\* C16: a call that missed the memory tier and the durable tier issues its own
\* origin tile request, also when another call for the same key is in flight:
\* it waits on its own listener and timer, and what it returns is extracted
\* from its own tile.
THM_C16 ==
    \A c \in Calls :
        MissedCaches(c) =>
            /\ Has(log[c], "tileReq")
            /\ pc[c] = "wait" => c \in listeners /\ c \in timers
            /\ (pc[c] = "done" /\ outcome[c] = "ok") =>
                  result[c] = OriginBuffer(zxy(args[c]), tiles[c].layer)

\* two overlapping calls for "0-1-1", each past its own durable miss and
\* waiting on its own tile request
WIT_C16 ==
    /\ pc[1] = "wait" /\ pc[2] = "wait"
    /\ args[1] = args[2] /\ cacheKey(args[1]) = "0-1-1"
    /\ s3Res[1] = "miss" /\ s3Res[2] = "miss"
    /\ Has(log[1], "tileReq") /\ Has(log[2], "tileReq")
    /\ {1, 2} \subseteq listeners

Count(seq, e) == Cardinality({i \in 1..Len(seq) : seq[i] = e})

\* C17: one getTile call performs at most one memory lookup, one durable
\* lookup, one origin tile request with one load(), and one durable write;
\* a lookup, request or wait that failed is not tried again.
THM_C17 ==
    \A c \in Calls :
        /\ Count(log[c], "memHit") + Count(log[c], "memMiss") <= 1
        /\ Count(log[c], "s3Get") <= 1
        /\ Count(log[c], "tileReq") <= 1
        /\ Count(log[c], "load") <= 1
        /\ Count(log[c], "memSet") <= 1
        /\ Count(log[c], "s3Put") <= 1
        /\ Cardinality(SaveOf(c)) <= 1
        /\ pc[c] = "done" => c \notin listeners /\ c \notin timers

\* a call that went on after a failed durable lookup, and a call that ended
\* with a timeout: every operation appears once
WIT_C17 ==
    /\ s3Res[1] = "error"
    /\ log[1] = <<"memMiss", "s3Get", "tileReq", "load", "memSet", "s3Put">>
    /\ log[2] = <<"memMiss", "s3Get", "tileReq", "load", "timerFired">>
    /\ pc[2] = "done"

\* C18: the timeout does not stop the tile from loading: the tile of a call
\* that failed with TileLoadTimeout can still reach LOADED, and the call then
\* stays failed, with no memory write and no durable write made for it.
THM_C18 ==
    \A c \in Calls :
        TimerFired(c) =>
            /\ pc[c] = "done" /\ outcome[c] = "TileLoadTimeout"
            /\ result[c] = NullBuffer
            /\ tiles[c].state \in {"LOADING", "LOADED", "EMPTY", "ERROR"}
            /\ ~Has(log[c], "memSet") /\ ~Has(log[c], "s3Put")
            /\ Last(log[c]) = "timerFired"
            /\ SaveOf(c) = {}
            /\ \A i \in 1..Len(tileCache.cache) :
                  tileCache.cache[i].value.from = "origin" =>
                      \E d \in Calls \ {c} :
                          /\ outcome[d] = "ok"
                          /\ result[d] = tileCache.cache[i].value

\* the tile of the timed-out first call reached LOADED afterwards, and nothing
\* was written for it
WIT_C18 ==
    /\ TimerFired(1) /\ outcome[1] = "TileLoadTimeout"
    /\ handlerSaw[1] = <<"LOADING">>
    /\ tiles[1].state = "LOADED"
    /\ pc[2] = "idle"
    /\ LRUCache_size(tileCache) = 0 /\ s3Saves = {}

\* the errors of the claim's list
ListedErrors ==
    {"InvalidParameter", "TileLoadError", "TileLoadTimeout", "InvalidTileData"}

\* C19 as stated: a finished call has returned bytes or failed with
\* InvalidParameter, TileLoadError, TileLoadTimeout or InvalidTileData.
CE_C19 ==
    \A c \in Calls :
        pc[c] = "done" => outcome[c] \in {"ok"} \cup ListedErrors

\* C19 amended: when durable lookups return or fail and armed timers fire,
\* every started call finishes, also when its tile stays in IDLE or LOADING
\* forever, and it has then returned bytes or failed with InvalidParameter,
\* TileLoadError, TileLoadTimeout, InvalidTileData or the error thrown when the
\* render layer hands out no tile.
THM_C19 ==
    /\ \A c \in Calls : (pc[c] # "idle") ~> (pc[c] = "done")
    /\ [](\A c \in Calls :
             pc[c] = "done" =>
                 outcome[c] \in {"ok", "TileNull"} \cup ListedErrors)

\* a call whose tile never left LOADING was ended by its timer
WIT_C19 ==
    /\ pc[1] = "done" /\ outcome[1] = "TileLoadTimeout"
    /\ tiles[1].state = "LOADING" /\ handlerSaw[1] = <<"LOADING">>
    /\ 1 \notin timers

\* the keys of the integer triples of the bounded range
AllKeys == {cacheKey(b) : b \in KeyTriples}

\* C20: two different integer triples, negative values included, never have the
\* same memory key: the triples of the range have as many keys as there are
\* triples, and the memory tier holds the entry of the stored triple under its
\* own key only.
THM_C20 ==
    /\ Cardinality(AllKeys) = Cardinality(KeyTriples)
    /\ cacheKey(args[1]) \in AllKeys
    /\ LRUCache_size(tileCache) > 0 =>
          /\ MapKeys(tileCache.cache) = {cacheKey(args[1])}
          /\ LRUCache_getValue(tileCache, cacheKey(args[1])).zxy = zxy(args[1])

\* the entry of (x, y, z) = (1, -11, -1) is stored under "1--11--1"
WIT_C20 ==
    /\ args[1] = <<JSNum(1), JSNum(-11), JSNum(-1)>>
    /\ MapKeys(tileCache.cache) = {"1--11--1"}
    /\ LRUCache_getValue(tileCache, cacheKey(<<JSNum(11), JSNum(-1), JSNum(-1)>>))
          = NullBuffer

\* the entries of a Map other than key's, in insertion order
OtherEntries(m, key) == SelectSeq(m, LAMBDA e : e.key # key)

\* the step is a set(key, value) that found key present
SetOfPresentKey ==
    /\ Len(lruTrace') = Len(lruTrace) + 1
    /\ Last(lruTrace').op = "set"
    /\ Last(lruTrace').hit

\* C21: set(key, value) on a key that is already present replaces its value,
\* makes it the most-recently-used entry and removes no entry: the size is
\* unchanged and every other key keeps its value and its place in the recency
\* order, at capacity too.
THM_C21 ==
    [][SetOfPresentKey =>
        LET k == Last(lruTrace').key
        IN /\ LRUCache_size(tileCache') = LRUCache_size(tileCache)
           /\ Last(tileCache'.cache) =
                  [key |-> k, value |-> TestBuffer(Len(lruTrace'))]
           /\ OtherEntries(tileCache'.cache, k) = OtherEntries(tileCache.cache, k)
      ]_vars

\* a full cache of capacity 2 took a set of its oldest key
WIT_C21 ==
    /\ tileCache.maxSize = 2
    /\ TraceOps = << <<"set", "a">>, <<"set", "b">>, <<"set", "a">> >>
    /\ [i \in 1..Len(tileCache.cache) |-> tileCache.cache[i].key] = <<"b", "a">>
    /\ MapGet(tileCache.cache, "a") = TestBuffer(3)
    /\ MapGet(tileCache.cache, "b") = TestBuffer(2)

\* the transform call has returned, and the array it returned
Returned == returned # 0

Result == mem.heap[returned]

\* array[i] and the point at offset o of an array
At(a, i) == IF 0 <= i /\ i < Len(a) THEN a[i + 1] ELSE JSUndefined

PointAt(a, o) == <<At(a, o), At(a, o + 1)>>

\* the stride the call's forEachPoint loops run with
Stride ==
    IF version = 1 THEN dimension(call.opt_dimension)
    ELSE dimension_2(call.opt_dimension)

\* the offsets the loop visits on the caller's input
TupleOffsets ==
    IF Stride > 0 THEN {o \in 0..(Len(input0) - 1) : o % Stride = 0} ELSE {}

\* the visited offsets at which the input holds both components of a point
WholePoints == {o \in TupleOffsets : o + 1 < Len(input0)}

\* the China bounding region as the specification words it
OutsideRegion(p) ==
    \/ p[1].int < LonMin \/ p[1].int > LonMax
    \/ p[2].int < LatMin \/ p[2].int > LatMax

OnBoundary(p) ==
    /\ ~OutsideRegion(p)
    /\ p[1].int \in {LonMin, LonMax} \/ p[2].int \in {LatMin, LatMax}

\* p moved by delta(p), one way or the other
OffsetBy(p, sign) ==
    LET d == delta(p[1], p[2])
    IN IF sign > 0 THEN <<Plus(p[1], d[1]), Plus(p[2], d[2])>>
       ELSE <<Minus(p[1], d[1]), Minus(p[2], d[2])>>

\* C22: toWGS84 and fromWGS84 return a point outside the China bounding region
\* (lon < 72.004, lon > 137.8347, lat < 0.8293 or lat > 55.8271) exactly as it
\* came; a point on a boundary value counts as inside and is offset.
THM_C22 ==
    (Returned /\ call.fn \in {"toWGS84", "fromWGS84"} /\ Stride >= 2) =>
        \A o \in WholePoints :
            LET p == PointAt(input0, o)
                r == PointAt(Result, o)
            IN /\ OutsideRegion(p) => r = p
               /\ OnBoundary(p) =>
                     /\ r # p
                     /\ r = OffsetBy(p, 1) \/ r = OffsetBy(p, -1)

\* toWGS84 returned for the south-west corner of the region, and moved it
WIT_C22 ==
    /\ Returned
    /\ call.fn = "toWGS84"
    /\ input0 = <<JSNum(LonMin), JSNum(LatMin)>>
    /\ Result # input0

InsideRegion(p) == ~OutsideRegion(p)

\* C23: for every point inside the China bounding region toWGS84 returns the
\* input minus delta(input) and fromWGS84 returns the input plus delta(input),
\* on both components, delta being evaluated at the input point.
CE_C23 ==
    (Returned /\ call.fn \in {"toWGS84", "fromWGS84"} /\ Stride >= 2) =>
        \A o \in WholePoints :
            LET p == PointAt(input0, o)
            IN InsideRegion(p) =>
                  PointAt(Result, o) =
                      OffsetBy(p, IF call.fn = "toWGS84" THEN -1 ELSE 1)

\* equal within Epsilon, on one component and on both
Close(a, b) ==
    isFinite(a) /\ isFinite(b) /\ (a.int - b.int) \in -Epsilon..Epsilon

ClosePoints(r, p) == Close(r[1], p[1]) /\ Close(r[2], p[2])

StrictlyInside(p) ==
    /\ LonMin < p[1].int /\ p[1].int < LonMax
    /\ LatMin < p[2].int /\ p[2].int < LatMax

\* the array the first of the two calls of a round trip returned; the second
\* call allocates its own
FirstResult == mem.heap[2]

\* C24: for every point p strictly inside the China bounding box,
\* fromWGS84(toWGS84(p)) equals p within a small numeric epsilon on both
\* components.
CE_C24 ==
    (Returned /\ call.fn = "fromWGS84_toWGS84") =>
        \A o \in WholePoints :
            StrictlyInside(PointAt(input0, o)) =>
                ClosePoints(PointAt(Result, o), PointAt(input0, o))

\* C24, amended: for every point p inside the China bounding region whose
\* image toWGS84(p) is inside the region too, fromWGS84(toWGS84(p)) equals p
\* within epsilon on both components.
THM_C24 ==
    (Returned /\ call.fn = "fromWGS84_toWGS84") =>
        \A o \in WholePoints :
            (InsideRegion(PointAt(input0, o))
                /\ InsideRegion(PointAt(FirstResult, o))) =>
                ClosePoints(PointAt(Result, o), PointAt(input0, o))

\* the round trip of Shanghai came back near Shanghai but not on it
WIT_C24 ==
    /\ Returned
    /\ call.fn = "fromWGS84_toWGS84"
    /\ input0 = <<JSNum(Shanghai[1]), JSNum(Shanghai[2])>>
    /\ InsideRegion(PointAt(FirstResult, 0))
    /\ FirstResult # input0
    /\ Result # input0
    /\ ClosePoints(PointAt(Result, 0), PointAt(input0, 0))

\* one point through one point transform, by the transform's own definition
\* applied to an array of its own with a separate output
PointOf(f, p) ==
    transformFunc(f, NewMemory(<<p, <<JSUndefined, JSUndefined>>>>), 1, 2, 0).heap[2]

\* the stated pipeline of each composed conversion, as base transforms of
\* the definition in use applied to a point one after the other
PipelineOf(fn, p) ==
    LET g == gcj02(version)
    IN CASE fn = "ll2gmerc" -> PointOf("forward", PointOf(g.fromWGS84, p))
         [] fn = "gmerc2ll" -> PointOf(g.toWGS84, PointOf("inverse", p))
         [] fn = "smerc2gmerc" ->
               PointOf("forward", PointOf(g.fromWGS84, PointOf("inverse", p)))
         [] fn = "gmerc2smerc" ->
               PointOf("forward", PointOf(g.toWGS84, PointOf("inverse", p)))

\* C25: each composed conversion returns, for every input array, the values
\* of its stated pipeline of base transforms applied in order: ll2gmerc is
\* fromWGS84 then forward, gmerc2ll is inverse then toWGS84, smerc2gmerc is
\* inverse, fromWGS84, forward, and gmerc2smerc is inverse, toWGS84, forward.
THM_C25 ==
    (Returned /\ call.fn \in ComposedFns /\ Stride >= 2) =>
        \A o \in TupleOffsets :
            PointAt(Result, o) = PipelineOf(call.fn, PointAt(input0, o))

\* smerc2gmerc returned for two points, one inside the region and one outside
WIT_C25 ==
    /\ Returned
    /\ call.fn = "smerc2gmerc"
    /\ call.opt_output = 2
    /\ Len(input0) = 4
    /\ InsideRegion(PointOf("inverse", PointAt(input0, 0)))
    /\ OutsideRegion(PointOf("inverse", PointAt(input0, 2)))
    /\ PointAt(Result, 0) # PointAt(input0, 0)

\* the point that gmerc2ll hands to toWGS84 when it is given ll2gmerc(p)
Recovered(p) ==
    PointOf("inverse", PointOf("forward", PointOf(gcj02(version).fromWGS84, p)))

\* C26: converting a geographic point to GCJ-Mercator with ll2gmerc and the
\* result back with gmerc2ll returns the original point within epsilon, for
\* points inside the China region and for points outside it.
CE_C26 ==
    (Returned /\ call.fn = "gmerc2ll_ll2gmerc") =>
        \A o \in WholePoints :
            ClosePoints(PointAt(Result, o), PointAt(input0, o))

\* C26, amended: gmerc2ll(ll2gmerc(p)) returns p within epsilon for every
\* point p whose latitude is within -85.0511287798..85.0511287798 and which
\* lies on the same side of the region's boundary as the point that gmerc2ll
\* hands to toWGS84: both inside the region, or both outside it.
THM_C26 ==
    (Returned /\ call.fn = "gmerc2ll_ll2gmerc") =>
        \A o \in WholePoints :
            LET p == PointAt(input0, o)
            IN (/\ -MAX_LATITUDE <= p[2].int /\ p[2].int <= MAX_LATITUDE
                /\ InsideRegion(p) <=> InsideRegion(Recovered(p))) =>
                   ClosePoints(PointAt(Result, o), p)

\* the round trip through GCJ-Mercator returned for a point inside the region
\* and a point outside it
WIT_C26 ==
    /\ Returned
    /\ call.fn = "gmerc2ll_ll2gmerc"
    /\ Len(input0) = 4
    /\ InsideRegion(PointAt(input0, 0)) /\ InsideRegion(Recovered(PointAt(input0, 0)))
    /\ OutsideRegion(PointAt(input0, 2))
    /\ Recovered(PointAt(input0, 0)) # PointAt(input0, 0)
    /\ ClosePoints(PointAt(Result, 0), PointAt(input0, 0))
    /\ ClosePoints(PointAt(Result, 2), PointAt(input0, 2))

\* the base transform f applied to array a with a separate output array out,
\* from offset o to the end of a, with stride dim > 0
RECURSIVE Sweep(_, _, _, _)
Sweep(f, m, dim, o) ==
    IF o < Len(m.heap[1])
    THEN Sweep(f, transformFunc(f, m, 1, 2, o), dim, o + dim)
    ELSE m

\* what the call's transform returns for the caller's input when it is given
\* a separate output array
SeparateResult ==
    LET blank == [k \in 1..Len(input0) |-> JSUndefined]
    IN Sweep(StagesOf(call.fn, version)[1].f, NewMemory(<<input0, blank>>),
             Stride, 0).heap[2]

\* the indices of the returned array that the transform wrote
Written == {w[2] : w \in {x \in mem.writes : x[1] = returned}}

InPlace == Returned /\ call.fn \in BaseFns /\ call.opt_output = 1

AgreesWithSeparate ==
    /\ ~mem.stale
    /\ \A i \in Written : At(Result, i) = At(SeparateResult, i)

\* C27: for every transform, every input array and every dimension, a call
\* with output === input yields the same resulting values as a call with a
\* separate output array: no component of a point is read after a write of
\* the same call has overwritten it.
CE_C27 == InPlace => AgreesWithSeparate

\* C27, amended: the same, for every dimension of at least 2 and for the
\* dimension omitted.
THM_C27 ==
    (InPlace /\ (call.opt_dimension = JSUndefined \/ call.opt_dimension.int >= 2))
        => AgreesWithSeparate

\* inverse returned from a call in place on two points
WIT_C27 ==
    /\ InPlace
    /\ call.fn = "inverse"
    /\ call.opt_dimension = JSNum(2)
    /\ Len(input0) = 4
    /\ Written = {0, 1, 2, 3}
    /\ Result # input0
    /\ Result = SeparateResult

\* the caller's input array as it is now
Input == mem.heap[1]

\* C28: when output is omitted and dimension is 2, a transform returns a
\* newly allocated array, distinct from the input array, whose length equals
\* the input's length for every input length, odd lengths included, and
\* leaves the input array unchanged.
CE_C28 ==
    (/\ Returned
     /\ call.fn \in BaseFns \cup ComposedFns
     /\ call.opt_output = 0
     /\ call.opt_dimension \in {JSUndefined, JSNum(2)}) =>
        /\ returned # 1
        /\ Len(Result) = Len(input0)
        /\ Input = input0

\* the indices of the components that follow the first two of their tuple
Trailing == {i \in 0..(Len(input0) - 1) : i % Stride >= 2}

\* C29: when output is omitted and dimension is greater than 2, the result is
\* a copy of the input in which only the first two components of each tuple
\* have been overwritten: every trailing component of every tuple in the
\* result equals the input's component at the same index, and no trailing
\* component is ever read by the transform.
THM_C29 ==
    (/\ call.fn \in BaseFns \cup ComposedFns
     /\ call.opt_output = 0
     /\ isFinite(call.opt_dimension) /\ call.opt_dimension.int > 2) =>
        /\ \A a \in mem.reads \cup mem.writes : a[2] \notin Trailing
        /\ Returned =>
              /\ Len(Result) >= Len(input0)
              /\ \A i \in Trailing : At(Result, i) = At(input0, i)
              /\ call.fn \in BaseFns => returned # 1 /\ Input = input0

\* toWGS84 returned for two points that carry a third component each
WIT_C29 ==
    /\ Returned
    /\ call.fn = "toWGS84"
    /\ call.opt_output = 0
    /\ call.opt_dimension = JSNum(3)
    /\ Len(input0) = 6
    /\ Trailing = {2, 5}
    /\ At(Result, 2) = JSNum(7) /\ At(Result, 5) = JSNum(8)
    /\ At(Result, 0) # At(input0, 0)
    /\ mem.reads = {<<1, 0>>, <<1, 1>>, <<1, 3>>, <<1, 4>>}

\* the step is one iteration of a forEachPoint loop
LoopIteration == frame.on /\ frame'.on /\ frame'.iter = frame.iter + 1

\* C30: every transform call terminates and raises no error, for every finite
\* input array and every value of the dimension argument, 0 and negative
\* values included: each iteration of the loop brings offset nearer to len.
CE_C30 ==
    [][LoopIteration => frame'.len - frame'.offset < frame.len - frame.offset]_vars

---------------------------------------------------------------------------
(* The configuration of the durable store *)

\* neither S3_ENDPOINT nor both AWS credentials are set to a non-empty value
NoStoreConfigured ==
    /\ ~Truthy(env["S3_ENDPOINT"])
    /\ ~(Truthy(env["AWS_ACCESS_KEY_ID"]) /\ Truthy(env["AWS_SECRET_ACCESS_KEY"]))

\* C31: when no durable store is configured, no getTile call performs a
\* durable lookup or a durable write, none is suspended in the store, no write
\* is in flight, and the bytes a call returns come from the memory tier or the
\* origin.
THM_C31 ==
    NoStoreConfigured =>
        /\ s3Saves = {}
        /\ \A c \in Calls :
              /\ ~Has(log[c], "s3Get")
              /\ ~Has(log[c], "s3Put")
              /\ pc[c] # "s3"
              /\ s3Res[c] = "none"
              /\ result[c].from # "s3"

\* one credential alone is set, and a call was served from the origin and
\* the next from the memory tier
WIT_C31 ==
    /\ NoStoreConfigured
    /\ Truthy(env["AWS_ACCESS_KEY_ID"])
    /\ outcome[1] = "ok" /\ outcome[2] = "ok"
    /\ log[1] = <<"memMiss", "tileReq", "memSet">>
    /\ log[2] = <<"memHit">>
    /\ result[2].from = "origin"

---------------------------------------------------------------------------
(* A tile that is ready when it is handed out *)

\* the step in which call c obtains its tile from the render layer, the tile
\* being in state LOADED or EMPTY as it is handed out
ObtainsReady(c) ==
    /\ ~Has(log[c], "tileReq")
    /\ Has(log'[c], "tileReq")
    /\ tiles'[c].state \in {"LOADED", "EMPTY"}

\* C32: a call whose origin tile is LOADED or EMPTY when it obtains it
\* subscribes no listener, arms no timeout and does not call load(); its
\* handler never runs, and the call goes on to extraction and finishes in the
\* step in which it obtained the tile.
THM_C32 ==
    [][\A c \in Calls :
          ObtainsReady(c) =>
              /\ c \notin listeners' /\ c \notin timers'
              /\ listeners' = listeners /\ timers' = timers
              /\ ~Has(log'[c], "load")
              /\ handlerSaw'[c] = <<>>
              /\ pc'[c] = "done"
              /\ outcome'[c] = extract(tiles'[c]).outcome]_vars

\* a call handed an EMPTY tile after a durable miss failed at extraction,
\* and another handed a LOADED tile returned its bytes, neither having waited
WIT_C32 ==
    /\ log[1] = <<"memMiss", "s3Get", "tileReq">>
    /\ tiles[1].state = "EMPTY"
    /\ outcome[1] = "InvalidTileData"
    /\ log[2] = <<"memMiss", "s3Get", "tileReq", "memSet", "s3Put">>
    /\ tiles[2].state = "LOADED"
    /\ outcome[2] = "ok"
    /\ handlerSaw[1] = <<>> /\ handlerSaw[2] = <<>>

---------------------------------------------------------------------------
(* The durable store's reads *)

Settled(op) == store.op = op /\ store.stage = "done"

AbsentNames == {"NoSuchKey", "NotFound"}

\* C33: TileStorage.getTile returns null exactly when the store rejects the
\* request with NoSuchKey or NotFound or answers without a body, and raises
\* every other error, from the request or from the body stream, unchanged;
\* hasTile returns false exactly when the request is rejected with NotFound,
\* and raises every other error unchanged.
THM_C33 ==
    /\ Settled("getTile") =>
          /\ store.ret = ReturnsNull <=>
                \/ store.answer.kind = "nobody"
                \/ store.answer.kind = "rejected"
                      /\ store.answer.name \in AbsentNames
          /\ store.answer.kind = "rejected" /\ store.answer.name \notin AbsentNames
                => store.ret = Throws(store.answer.name)
          /\ store.answer.kind = "streamError"
                => store.ret = Throws(store.answer.name)
          /\ store.ret.settled = "throw"
                => store.answer.kind \in {"rejected", "streamError"}
    /\ Settled("hasTile") =>
          /\ store.ret = ReturnsBoolean(FALSE) <=>
                store.answer = Answer("rejected", "NotFound")
          /\ store.answer.kind = "rejected" /\ store.answer.name # "NotFound"
                => store.ret = Throws(store.answer.name)
          /\ store.ret.settled = "throw" => store.answer.kind = "rejected"

\* hasTile was answered NoSuchKey and raised it, where getTile returns null
WIT_C33 ==
    /\ Settled("hasTile")
    /\ store.answer = Answer("rejected", "NoSuchKey")
    /\ store.ret = Throws("NoSuchKey")
    /\ getTile_catch(store.answer.name) = ReturnsNull

---------------------------------------------------------------------------
(* Listeners and timers of the origin wait *)

Waiting == {c \in Calls : pc[c] = "wait"}

\* the step in which the timeout callback of call c runs
TimerFires(c) == Count(log'[c], "timerFired") > Count(log[c], "timerFired")

\* C34: the calls whose listener is subscribed, and the calls whose timer is
\* armed, are exactly the calls suspended in the origin wait, so their numbers
\* are equal; a timer fires only for a call that is still waiting, at most
\* once per call, and never for a call that has succeeded or failed.
THM_C34 ==
    /\ [](/\ listeners = Waiting
          /\ timers = Waiting
          /\ Cardinality(listeners) = Cardinality(Waiting)
          /\ Cardinality(timers) = Cardinality(Waiting)
          /\ \A c \in Calls :
                /\ Count(log[c], "timerFired") <= 1
                /\ TimerFired(c) => outcome[c] = "TileLoadTimeout")
    /\ [][\A c \in Calls :
             /\ TimerFires(c) => pc[c] = "wait" /\ pc'[c] = "done"
             /\ pc[c] = "wait" /\ pc'[c] = "done"
                   => c \notin listeners' /\ c \notin timers']_vars

\* one call left its wait through the handler on LOADED and another through
\* it on ERROR, and neither has a timer or a listener left
WIT_C34 ==
    /\ Has(handlerSaw[1], "LOADED") /\ outcome[1] = "ok"
    /\ Has(handlerSaw[2], "ERROR") /\ outcome[2] = "TileLoadError"
    /\ Has(log[1], "load") /\ Has(log[2], "load")
    /\ listeners = {} /\ timers = {}

---------------------------------------------------------------------------
(* What a failed call leaves behind *)

PropagatedErrors ==
    {"InvalidParameter", "TileLoadError", "TileLoadTimeout", "InvalidTileData"}

\* a step of call c: it starts, is resumed, or its handler or timer runs
StepOf(c) == pc'[c] # pc[c] \/ log'[c] # log[c] \/ handlerSaw'[c] # handlerSaw[c]

\* C35: a call that fails with InvalidParameter, TileLoadError, TileLoadTimeout
\* or InvalidTileData has made no memory write, promoted no entry and issued
\* no durable write; every step of a call other than the one in which it
\* returns bytes leaves the memory tier (keys, values and order) and the
\* durable writes as they were, so the memory tier changes between the call's
\* memory miss and its failure only by other calls and resets.
THM_C35 ==
    /\ [](\A c \in Calls :
             outcome[c] \in PropagatedErrors =>
                 /\ ~Has(log[c], "memSet")
                 /\ ~Has(log[c], "memHit")
                 /\ ~Has(log[c], "s3Put")
                 /\ SaveOf(c) = {})
    /\ [][\A c \in Calls :
             StepOf(c) /\ outcome'[c] # "ok" =>
                 /\ tileCache' = tileCache
                 /\ s3Saves' = s3Saves
                 /\ s3Objects' = s3Objects]_vars

\* the memory tier still holds the tile of the first call after the second
\* call, for another tile, failed at extraction
WIT_C35 ==
    /\ outcome[1] = "ok" /\ result[1].from = "origin"
    /\ outcome[2] = "InvalidTileData"
    /\ args[1] # args[2]
    /\ LRUCache_getValue(tileCache, cacheKey(args[1])) = result[1]
    /\ LRUCache_size(tileCache) = 1

---------------------------------------------------------------------------
(* The arrays the composed conversions write *)

\* the conversions whose first stage is smerc2ll(input, input)
InputOverwriters == {"gmerc2ll", "smerc2gmerc", "gmerc2smerc"}

ReturnInput == {"smerc2gmerc", "gmerc2smerc"}

\* no stage of the call has finished yet
FirstStage == call # NoCall /\ Len(stages) = Len(StagesOf(call.fn, version))

\* forEachPoint is entered; one iteration of its loop runs
Enters == ~frame.on /\ frame'.on

Iterates == frame.on /\ frame'.on /\ frame'.iter = frame.iter + 1

\* a separately supplied output array as the caller allocated it
Unwritten == [k \in 1..Len(input0) |-> JSUndefined]

---------------------------------------------------------------------------
(* Whose bytes the memory tier holds *)

\* the tile (z, x, y) that getTile(x, y, z) is asked for
TileOf(a) == <<a[3], a[1], a[2]>>

\* call c put the entry e into the memory tier: it was called for the tile of
\* e's key and returned e's bytes, which the durable store had returned to it
\* or which it extracted from its origin tile
PutBy(c, e) ==
    /\ outcome[c] = "ok"
    /\ Has(log[c], "memSet")
    /\ cacheKey(args[c]) = e.key
    /\ result[c] = e.value
    /\ \/ s3Res[c] = "hit" /\ Has(log[c], "s3Get")
       \/ /\ Has(log[c], "tileReq")
          /\ tiles[c].zxy = TileOf(args[c])
          /\ e.value = OriginBuffer(tiles[c].zxy, tiles[c].layer)

\* C37: in every reachable state, under every interleaving of calls and
\* resets, each entry of the memory tier holds bytes of the tile its key
\* names: a call for that tile put them there, having received them from the
\* durable store or extracted them from an origin tile requested for it.
THM_C37 ==
    \A i \in 1..Len(tileCache.cache) :
        LET e == tileCache.cache[i]
        IN /\ e.value.from \in {"origin", "s3"}
           /\ \A a \in TileArgs :
                 (validParams(a) /\ cacheKey(a) = e.key)
                     => e.value.zxy = TileOf(a)
           /\ \E c \in Calls : PutBy(c, e)

\* two calls for different tiles waited at the same time across a reset, and
\* the memory tier holds the bytes the first one extracted from its tile of
\* the replaced layer, under that tile's key
WIT_C37 ==
    /\ args[1] # args[2]
    /\ Has(log[1], "load") /\ Has(log[2], "load")
    /\ outcome[1] = "ok" /\ outcome[2] = "ok"
    /\ renderLayer = 1 /\ tiles[1].layer = 0 /\ tiles[2].layer = 0
    /\ LRUCache_getValue(tileCache, cacheKey(args[1]))
           = OriginBuffer(TileOf(args[1]), 0)

---------------------------------------------------------------------------
(* The durable write and the lookups that follow it *)

\* the durable write of call d has completed, and the store holds the object
\* it wrote
WriteCompleted(d) ==
    /\ outcome[d] = "ok"
    /\ Has(log[d], "s3Put")
    /\ SaveOf(d) = {}
    /\ [key |-> saveKeyOf(args[d]), body |-> result[d]] \in s3Objects

\* the step in which the durable lookup of call c returns or fails
LookupEnds(c) == pc[c] = "s3" /\ pc'[c] # "s3"

\* call c returns the bytes call d wrote, from the durable tier
ServedFromWriteOf(c, d) ==
    /\ s3Res'[c] = "hit"
    /\ outcome'[c] = "ok"
    /\ result'[c] = result[d]
    /\ log'[c] = <<"memMiss", "s3Get", "memSet">>
    /\ LRUCache_getValue(tileCache', cacheKey(args[c])) = result[d]

=============================================================================
